---- MODULE Spec2Model ----
(***************************************************************************)
(* A model of the chart data-transformation layer of bta-pbi-charts: the   *)
(* heatmap's hierarchical axis builder and matrix transformer, the         *)
(* inline-labels-line aggregation accumulator, the highlight override of   *)
(* the categorical transformers, the timeline's epoch classification and   *)
(* the heatmap's month-year sort key.                                      *)
(*                                                                         *)
(* Every component has its own variables, its own initial predicate and    *)
(* its own specification; the variables of the other components stay at    *)
(* their idle value.  JavaScript values are modelled as follows: a string  *)
(* that is only compared or joined is a TLA+ string, a string that is      *)
(* parsed is a sequence of one-character strings, null/undefined and NaN   *)
(* are the records NullV and NaNV, and a number too wide for TLC's         *)
(* 32-bit integers is a signed pair of base-10^6 limbs.                    *)
(***************************************************************************)
EXTENDS Integers, Sequences, FiniteSets, TLC

VARIABLES
    leafKeys,       \* axis builder: the leafKeys argument
    leafPaths,      \* axis builder: the leafPaths argument
    axis,           \* axis builder: the AxisHierarchy returned (NoAxis before the call)
    axisPc,         \* axis builder: "input" | "built" | "spliced"
    epochColumns,   \* timeline: the role columns (name, type, values) of one endpoint
    epochOut,       \* timeline: what the epoch helpers returned for them
    epochPc,        \* timeline: "input" | "normalized" | "renormalized" | "classified"
    sortLabels,     \* heatmap sort key: the raw string values of some column nodes
    sortKeys,       \* heatmap sort key: normalizeSortValue of each of them
    sortPc,         \* heatmap sort key: "input" | "keyed"
    lineRows,       \* line: the category values (x label, series) of every row
    lineGroups,     \* line: valueGroups (groupValue, values, highlights, values2)
    lineAt,         \* line: the value group and row the loop is at
    lineAcc,        \* line: the accumulator map, in insertion order
    lineModel,      \* line: the chart data returned (NoLineModel before)
    linePc,         \* line: "rows" | "collected" | "done"
    hlBase,         \* highlight: the base value of a row or cell
    hlHighlights,   \* highlight: whether the column has a highlights array
    hlHighlight,    \* highlight: the highlight of the row or cell
    hlOut,          \* highlight: the chart that read the row and the value it got
    hlPc,           \* highlight: "input" | "done"
    hmMatrix,       \* heatmap: the matrix view (column leaves, row leaves with cells)
    hmSettings,     \* heatmap: the totals settings transform was called with
    hmModel,        \* heatmap: the HeatmapMatrixData returned (NoHeatmapModel before)
    hmPc,           \* heatmap: "input" | "done" | "fallback"
    tlView,         \* timeline: the categorical view transform is called with
    tlModel,        \* timeline: the WorldHistoryTimelineData returned
    tlPc,           \* timeline: "input" | "done"
    callsLog,       \* calls: chart, input and returned model of every call so far
    callsPoints,    \* calls: the heatmap's dataPoints array as the last call left it
    callsAcc,       \* calls: the line chart's acc map as the last call left it
    callsPc,        \* calls: "ready"
    catView,        \* bump, donut, line: the categorical view of the call
    catModel,       \* bump, donut, line: the chart data (or role indices) returned
    catPc,          \* bump, donut, line: "input" | "done"
    exportControl,  \* export: the fields of VisualExportControl and of its button
    exportTasks,    \* export: the click handlers and exports suspended at an await
    exportPc,       \* export: "created"
    dateCategories, \* date axis: the category columns in the xAxis role
    dateAxis,       \* date axis: the index detectDateAxisIndex returned
    datePc,         \* date axis: "input" | "done"
    treeMatrix,     \* matrix trees: the matrix view, its row and column trees
    treeModel,      \* matrix trees: the X leaves and data points transformMatrix made
    treePc,         \* matrix trees: "input" | "done"
    rowsView,       \* heatmap rows: the matrix view (row tree, column leaves) and the settings
    rowsModel,      \* heatmap rows: the chart data transformMatrix made
    rowsPc,         \* heatmap rows: "input" | "done"
    lvColumns,      \* temporal level: the columns
    lvOut,          \* temporal level: what inferTemporalLevel returned
    lvPc,           \* temporal level: "input" | "done"
    refView,        \* reference year: the start and end columns of the one-row view
    refRow,         \* reference year: the ordered endpoints transform made of the row
    refPc,          \* reference year: "input" | "done"
    hsColumns,      \* highlight state: the value columns of the categorical view
    hsOut,          \* highlight state: what getCategoricalHighlightState returned
    hsPc,           \* highlight state: "input" | "done"
    smVisual,       \* sort mode: allowInteractions, runtimeSortBy and lastUpdateOptions of the visual
    smOut           \* sort mode: what the last update rendered and the state of the sort control

axisVars == <<leafKeys, leafPaths, axis, axisPc>>
epochVars == <<epochColumns, epochOut, epochPc>>
sortVars == <<sortLabels, sortKeys, sortPc>>
lineVars == <<lineRows, lineGroups, lineAt, lineAcc, lineModel, linePc>>
hlVars == <<hlBase, hlHighlights, hlHighlight, hlOut, hlPc>>
hmVars == <<hmMatrix, hmSettings, hmModel, hmPc>>
tlVars == <<tlView, tlModel, tlPc>>
callsVars == <<callsLog, callsPoints, callsAcc, callsPc>>
catVars == <<catView, catModel, catPc>>
exportVars == <<exportControl, exportTasks, exportPc>>
dateVars == <<dateCategories, dateAxis, datePc>>
treeVars == <<treeMatrix, treeModel, treePc>>
rowsVars == <<rowsView, rowsModel, rowsPc>>
lvVars == <<lvColumns, lvOut, lvPc>>
refVars == <<refView, refRow, refPc>>
hsVars == <<hsColumns, hsOut, hsPc>>
smVars == <<smVisual, smOut>>

notAxisVars == <<epochVars, sortVars, lineVars, hlVars, hmVars, tlVars, callsVars,
                 catVars, exportVars, dateVars, treeVars, rowsVars, lvVars, refVars,
                 hsVars, smVars>>
notEpochVars == <<axisVars, sortVars, lineVars, hlVars, hmVars, tlVars, callsVars,
                  catVars, exportVars, dateVars, treeVars, rowsVars, lvVars, refVars,
                  hsVars, smVars>>
notSortVars == <<axisVars, epochVars, lineVars, hlVars, hmVars, tlVars, callsVars,
                 catVars, exportVars, dateVars, treeVars, rowsVars, lvVars, refVars,
                 hsVars, smVars>>
notLineVars == <<axisVars, epochVars, sortVars, hlVars, hmVars, tlVars, callsVars,
                 catVars, exportVars, dateVars, treeVars, rowsVars, lvVars, refVars,
                 hsVars, smVars>>
notHlVars == <<axisVars, epochVars, sortVars, lineVars, hmVars, tlVars, callsVars,
               catVars, exportVars, dateVars, treeVars, rowsVars, lvVars, refVars,
               hsVars, smVars>>
notHmVars == <<axisVars, epochVars, sortVars, lineVars, hlVars, tlVars, callsVars,
               catVars, exportVars, dateVars, treeVars, rowsVars, lvVars, refVars,
               hsVars, smVars>>
notTlVars == <<axisVars, epochVars, sortVars, lineVars, hlVars, hmVars, callsVars,
               catVars, exportVars, dateVars, treeVars, rowsVars, lvVars, refVars,
               hsVars, smVars>>
notCallsVars == <<axisVars, epochVars, sortVars, lineVars, hlVars, hmVars, tlVars,
                  catVars, exportVars, dateVars, treeVars, rowsVars, lvVars, refVars,
                  hsVars, smVars>>
notCatVars == <<axisVars, epochVars, sortVars, lineVars, hlVars, hmVars, tlVars,
                callsVars, exportVars, dateVars, treeVars, rowsVars, lvVars, refVars,
                hsVars, smVars>>
notExportVars == <<axisVars, epochVars, sortVars, lineVars, hlVars, hmVars, tlVars,
                   callsVars, catVars, dateVars, treeVars, rowsVars, lvVars, refVars,
                   hsVars, smVars>>
notDateVars == <<axisVars, epochVars, sortVars, lineVars, hlVars, hmVars, tlVars,
                 callsVars, catVars, exportVars, treeVars, rowsVars, lvVars, refVars,
                 hsVars, smVars>>
notTreeVars == <<axisVars, epochVars, sortVars, lineVars, hlVars, hmVars, tlVars,
                 callsVars, catVars, exportVars, dateVars, rowsVars, lvVars, refVars,
                 hsVars, smVars>>
notRowsVars == <<axisVars, epochVars, sortVars, lineVars, hlVars, hmVars, tlVars,
                 callsVars, catVars, exportVars, dateVars, treeVars, lvVars, refVars,
                 hsVars, smVars>>
notLvVars == <<axisVars, epochVars, sortVars, lineVars, hlVars, hmVars, tlVars,
               callsVars, catVars, exportVars, dateVars, treeVars, rowsVars, refVars,
               hsVars, smVars>>
notRefVars == <<axisVars, epochVars, sortVars, lineVars, hlVars, hmVars, tlVars,
                callsVars, catVars, exportVars, dateVars, treeVars, rowsVars, lvVars,
                hsVars, smVars>>
notHsVars == <<axisVars, epochVars, sortVars, lineVars, hlVars, hmVars, tlVars,
               callsVars, catVars, exportVars, dateVars, treeVars, rowsVars, lvVars,
               refVars, smVars>>
notSmVars == <<axisVars, epochVars, sortVars, lineVars, hlVars, hmVars, tlVars,
               callsVars, catVars, exportVars, dateVars, treeVars, rowsVars, lvVars,
               refVars, hsVars>>

vars == <<leafKeys, leafPaths, axis, axisPc, epochColumns, epochOut, epochPc,
          sortLabels, sortKeys, sortPc, lineRows, lineGroups, lineAt, lineAcc,
          lineModel, linePc, hlBase, hlHighlights, hlHighlight, hlOut, hlPc, hmMatrix,
          hmSettings, hmModel, hmPc, tlView, tlModel, tlPc, callsLog, callsPoints,
          callsAcc, callsPc, catView, catModel, catPc, exportControl, exportTasks,
          exportPc, dateCategories, dateAxis, datePc, treeMatrix, treeModel, treePc,
          rowsView, rowsModel, rowsPc, lvColumns, lvOut, lvPc, refView, refRow, refPc,
          hsColumns, hsOut, hsPc, smVisual, smOut>>

-----------------------------------------------------------------------------
(* Bounds of the model *)

MaxLeaves == 3      \* leaves per axis
MaxDepth == 2       \* levels per leaf path
MaxEpochRows == 2   \* values per timeline column
MaxSortLabels == 2  \* labels whose sort keys are compared
MaxLineRows == 3    \* rows of the line chart's categorical view
MaxHeatmapRows == 2  \* row leaves of the heatmap's matrix view
MaxTimelineRows == 2 \* rows of the timeline's categorical view
MaxCalls == 3       \* transform calls in a row
MaxPendingHandlers == 2     \* click handlers awaiting one capability check
MaxCategoryRows == 2    \* rows of a bump or donut view
MaxCategoryColumns == 3 \* category columns of a bump, donut or line view
MaxDateColumns == 2     \* xAxis columns of the date axis detection
MaxColumnNodes == 2     \* nodes below the root of the heatmap's column tree
MaxRowNodes == 2        \* nodes below the root of the heatmap's row tree
MaxLevelColumns == 2    \* columns whose temporal level is inferred

-----------------------------------------------------------------------------
(* JavaScript helpers *)

NullV == [k |-> "null"]     \* null (and undefined where the code treats both alike)
UndefinedV == [k |-> "undefined"]
NaNV == [k |-> "nan"]       \* a number that is not finite
Num(n) == [k |-> "num", n |-> n]    \* a finite number that fits TLC's integers

Max(a, b) == IF a >= b THEN a ELSE b
Min(a, b) == IF a <= b THEN a ELSE b

SeqsUpTo(S, n) == UNION {[1..k -> S] : k \in 0..n}

\* Array.prototype.join
RECURSIVE Join(_, _)
Join(parts, sep) ==
    IF parts = <<>> THEN ""
    ELSE IF Len(parts) = 1 THEN parts[1]
    ELSE parts[1] \o sep \o Join(Tail(parts), sep)

\* Array.prototype.slice(0, n)
Slice(s, n) == SubSeq(s, 1, Min(n, Len(s)))

\* Array.prototype.splice(at, 0, x) on a copy, at counted from 0
InsertAt(s, at, x) == SubSeq(s, 1, at) \o <<x>> \o SubSeq(s, at + 1, Len(s))

-----------------------------------------------------------------------------
(* Hierarchical axis builder (HeatmapTransformer.ts) *)

KEY_SEP == "|"                      \* stands for "\u001f"
TOTAL_ROW_KEY == "__bta_total_row__"
TOTAL_COL_KEY == "__bta_total_col__"

NoAxis == [depth |-> -1]

\* leafPaths.reduce((m, p) => Math.max(m, p.length), 0)
RECURSIVE MaxPathLength(_)
MaxPathLength(paths) ==
    IF paths = <<>> THEN 0
    ELSE Max(Len(Head(paths)), MaxPathLength(Tail(paths)))

\* (leafPaths[i] ?? []).slice(0, level + 1).join(KEY_SEP); i and level count from 0
PrefixKey(paths, i, level) == Join(Slice(paths[i + 1], level + 1), KEY_SEP)

\* prefixParts[level] ?? ""
PrefixLabel(paths, i, level) ==
    IF Len(paths[i + 1]) >= level + 1 THEN paths[i + 1][level + 1] ELSE ""

\* A plausible slip: leaves compared by their label at the level alone
SamePrefixByLabel(paths, level, j, i) ==
    PrefixLabel(paths, j, level) = PrefixLabel(paths, i, level)

\* nextPrefix !== prefixKey, negated: leaf j continues the run that leaf i started
SamePrefix(paths, level, j, i) ==
    PrefixKey(paths, j, level) = PrefixKey(paths, i, level)

\* The inner while loop: the first j >= from that ends the run of leaf i
RECURSIVE ScanRun(_, _, _, _)
ScanRun(paths, level, i, j) ==
    IF j < Len(paths) /\ SamePrefix(paths, level, j, i)
    THEN ScanRun(paths, level, i, j + 1)
    ELSE j

\* A plausible slip: endLeafIndex: j
MakeSpanEndExclusive(paths, level, i, j) ==
    [level |-> level, startLeafIndex |-> i, endLeafIndex |-> j,
     label |-> PrefixLabel(paths, i, level), key |-> PrefixKey(paths, i, level)]

\* spans.push({level, startLeafIndex: i, endLeafIndex: j - 1, label, key: prefixKey})
MakeSpan(paths, level, i, j) ==
    [level |-> level, startLeafIndex |-> i, endLeafIndex |-> j - 1,
     label |-> PrefixLabel(paths, i, level), key |-> PrefixKey(paths, i, level)]

\* The outer while loop of one level, from leaf i on
RECURSIVE SpansFrom(_, _, _)
SpansFrom(paths, level, i) ==
    IF i >= Len(paths) THEN <<>>
    ELSE LET j == ScanRun(paths, level, i, i + 1)
         IN  <<MakeSpan(paths, level, i, j)>> \o SpansFrom(paths, level, j)

\* keyToPath: a later leaf with the same key replaces the earlier one
KeyToPath(keys, paths) ==
    [k \in {keys[i] : i \in 1..Len(keys)} |->
        paths[CHOOSE i \in 1..Len(keys) :
                 /\ keys[i] = k
                 /\ \A j \in 1..Len(keys) : keys[j] = k => j <= i]]

buildAxisHierarchyFromLeafPaths(keys, paths) ==
    LET depth == MaxPathLength(paths)
    IN  [depth |-> depth,
         leafKeys |-> keys,
         leafPaths |-> paths,
         spansByLevel |-> [L \in 1..depth |-> SpansFrom(paths, L - 1, 0)],
         keyToPath |-> KeyToPath(keys, paths)]

\* makeTotalPath: "" at every level but the last, "Total" at the last
makeTotalPath(depth) ==
    LET d == Max(1, depth)
    IN  [k \in 1..d |-> IF k = d THEN "Total" ELSE ""]

\* xParts.join(KEY_SEP) || `col${colLeafIndex}`
LeafKey(parts, stem, index) ==
    IF Join(parts, KEY_SEP) = "" THEN stem \o ToString(index)
    ELSE Join(parts, KEY_SEP)

(* The inputs of the axis builder: the label of a level is drawn from two
   labels of that level, and a path has 0..MaxDepth levels. *)
LevelLabels(level) == IF level = 0 THEN {"2024", "2025"} ELSE {"Q1", "Q2"}

AxisPaths ==
    UNION {{p \in [1..d -> {"2024", "2025", "Q1", "Q2"}] :
               \A k \in 1..d : p[k] \in LevelLabels(k - 1)} : d \in 0..MaxDepth}

AxisKeys(paths) == [i \in 1..Len(paths) |-> LeafKey(paths[i], "col", i - 1)]

AxisInit ==
    /\ leafPaths \in SeqsUpTo(AxisPaths, MaxLeaves)
    /\ leafKeys = AxisKeys(leafPaths)
    /\ axis = NoAxis
    /\ axisPc = "input"

AxisIdle ==
    /\ leafPaths = <<>>
    /\ leafKeys = <<>>
    /\ axis = NoAxis
    /\ axisPc = "idle"

\* let xAxis = buildAxisHierarchyFromLeafPaths(xLeafKeys, xLeafPaths)
AxisBuild ==
    /\ axisPc = "input"
    /\ axis' = buildAxisHierarchyFromLeafPaths(leafKeys, leafPaths)
    /\ axisPc' = "built"
    /\ UNCHANGED <<leafKeys, leafPaths>>
    /\ UNCHANGED notAxisVars

\* if (showColTotals) { ... splice(insertAt, 0, ...); xAxis = build(nextKeys, nextPaths) }
AxisSpliceTotal(atStart, totalKey) ==
    /\ axisPc = "built"
    /\ LET insertAt == IF atStart THEN 0 ELSE Len(axis.leafKeys)
           nextKeys == InsertAt(axis.leafKeys, insertAt, totalKey)
           nextPaths == InsertAt(axis.leafPaths, insertAt, makeTotalPath(axis.depth))
       IN  /\ leafKeys' = nextKeys
           /\ leafPaths' = nextPaths
           /\ axis' = buildAxisHierarchyFromLeafPaths(nextKeys, nextPaths)
    /\ axisPc' = "spliced"
    /\ UNCHANGED notAxisVars

AxisNext ==
    \/ AxisBuild
    \/ \E atStart \in BOOLEAN : AxisSpliceTotal(atStart, TOTAL_COL_KEY)

-----------------------------------------------------------------------------
(* Timeline: epoch classification (WorldHistoryTimelineTransformer.ts) *)

(* A finite JavaScript number of the timeline is an integer of up to 2^53,
   wider than TLC's integers: it is [k |-> "num", neg, hi, lo], standing for
   +/-(hi * 10^6 + lo) with 0 <= lo < 10^6. *)
Limb == 1000 * 1000

Big(hi, lo) == [k |-> "num", neg |-> FALSE, hi |-> hi, lo |-> lo]
BigNeg(hi, lo) == [k |-> "num", neg |-> TRUE, hi |-> hi, lo |-> lo]

IsFiniteNumber(v) == v.k = "num"

\* Math.abs
BigAbs(v) == [v EXCEPT !.neg = FALSE]

\* a <= b for two non-negative numbers
BigLeq(a, b) == a.hi < b.hi \/ (a.hi = b.hi /\ a.lo <= b.lo)

\* value * 1000
BigTimes1000(v) ==
    [v EXCEPT !.hi = v.hi * 1000 + (v.lo * 1000) \div Limb,
              !.lo = (v.lo * 1000) % Limb]

\* min <= Math.round(value) <= max for small integers min, max >= 0
BigIntIn(v, min, max) ==
    /\ ~v.neg
    /\ v.hi = 0
    /\ min <= v.lo
    /\ v.lo <= max

EPOCH_SEC_MIN == Big(1000, 0)               \* 1_000_000_000
EPOCH_SEC_MAX == Big(99999, 999999)         \* 99_999_999_999
EPOCH_MS_MIN == Big(1000000, 0)             \* 1_000_000_000_000
EPOCH_MS_MAX == Big(9999999, 999999)        \* 9_999_999_999_999

\* A plausible slip: abs > 1_000_000_000
normalizeEpochNumberStrict(value) ==
    IF ~IsFiniteNumber(value) THEN value
    ELSE IF /\ BigLeq(EPOCH_SEC_MIN, BigAbs(value))
            /\ BigAbs(value) # EPOCH_SEC_MIN
            /\ BigLeq(BigAbs(value), EPOCH_SEC_MAX)
         THEN BigTimes1000(value)
         ELSE value

normalizeEpochNumber(value) ==
    IF ~IsFiniteNumber(value) THEN value
    ELSE IF /\ BigLeq(EPOCH_SEC_MIN, BigAbs(value))
            /\ BigLeq(BigAbs(value), EPOCH_SEC_MAX)
         THEN BigTimes1000(value)
         ELSE value

isEpochLike(value) ==
    IF ~IsFiniteNumber(value) THEN FALSE
    ELSE \/ /\ BigLeq(EPOCH_SEC_MIN, BigAbs(value))
            /\ BigLeq(BigAbs(value), EPOCH_SEC_MAX)
         \/ /\ BigLeq(EPOCH_MS_MIN, BigAbs(value))
            /\ BigLeq(BigAbs(value), EPOCH_MS_MAX)

\* toTimelineValue for null, a Date, a number (a Date is [k |-> "date"])
toTimelineValue(rawValue) ==
    CASE rawValue.k = "null" -> NullV
      [] rawValue.k = "date" -> rawValue
      [] rawValue.k = "nan" -> NullV
      [] OTHER -> normalizeEpochNumber(rawValue)

(* getColumnName: the lower-cased display and query name.  The regular
   expressions that read it are tables over the names of the model. *)
TimelineNames == {"start", "start year", "date.month"}
NameIsDay(name) == name \in {"date.day"}        \* /\bday\b|\.day$/
NameIsMonth(name) == name \in {"date.month"}    \* /\bmonth\b|\.month$/
NameIsQuarter(name) == name \in {"date.quarter"}    \* /\bquarter\b|\bqtr\b|\.quarter$/
NameIsYear(name) == name \in {"start year"}     \* /\byear\b|\.year$/

\* parseIntegerValue of a number: Math.round(value), null when it is not finite
parseIntegerValue(rawValue) ==
    IF rawValue.k = "num" THEN rawValue ELSE NullV

\* column.values[rowIndex], rowIndex counted from 0; undefined past the end
ValueAt(column, rowIndex) ==
    IF rowIndex + 1 <= Len(column.values) THEN column.values[rowIndex + 1] ELSE NullV

\* The body of hasYearInRow's loop for one column: TRUE when it returns true
HasYearInColumn(column, rowIndex) ==
    LET rawValue == ValueAt(column, rowIndex)
        intValue == parseIntegerValue(rawValue)
    IN  CASE rawValue.k = "null" -> FALSE
          [] rawValue.k = "date" -> TRUE
          [] OTHER ->
               \/ /\ NameIsYear(column.name)
                  /\ intValue.k = "num"
                  /\ BigIntIn(intValue, 1000, 9999)
               \/ /\ rawValue.k = "num"
                  /\ isEpochLike(normalizeEpochNumber(rawValue))

hasYearInRow(columns, rowIndex) ==
    \E c \in 1..Len(columns) : HasYearInColumn(columns[c], rowIndex)

getTemporalLevelRank(level) ==
    CASE level = "day" -> 5
      [] level = "month" -> 4
      [] level = "quarter" -> 3
      [] level = "year" -> 2
      [] level = "date" -> 1
      [] OTHER -> 0

\* inferTemporalLevel: columnLevel before the values are read
ColumnLevelFromSource(column) ==
    IF column.dateTyped THEN "date"
    ELSE IF NameIsDay(column.name) THEN "day"
    ELSE IF NameIsMonth(column.name) THEN "month"
    ELSE IF NameIsQuarter(column.name) THEN "quarter"
    ELSE IF NameIsYear(column.name) THEN "year"
    ELSE "none"

\* inferTemporalLevel: one pass of the loop over column.values
ScanValue(st, value) ==
    CASE value.k = "null" -> st
      [] value.k = "date" ->
           [hasValue |-> TRUE, hasYear |-> TRUE, level |-> "date"]
      [] value.k = "num" ->
           IF isEpochLike(normalizeEpochNumber(value))
           THEN [hasValue |-> TRUE, hasYear |-> TRUE, level |-> "date"]
           ELSE IF BigIntIn(value, 1000, 9999)
           THEN [hasValue |-> TRUE, hasYear |-> TRUE,
                 level |-> IF st.level = "none" THEN "year" ELSE st.level]
           ELSE [hasValue |-> TRUE, hasYear |-> st.hasYear,
                 level |-> IF st.level # "none" THEN st.level
                           ELSE IF BigIntIn(value, 1, 4) THEN "quarter"
                           ELSE IF BigIntIn(value, 1, 12) THEN "month"
                           ELSE IF BigIntIn(value, 1, 31) THEN "day"
                           ELSE "none"]
      [] OTHER -> [st EXCEPT !.hasValue = TRUE]     \* String(NaN): no branch matches

RECURSIVE ScanValues(_, _)
ScanValues(st, values) ==
    IF values = <<>> THEN st
    ELSE ScanValues(ScanValue(st, Head(values)), Tail(values))

\* A plausible slip: columnHasValue starts true
ScanColumnHasValue(column) ==
    ScanValues([hasValue |-> TRUE, hasYear |-> FALSE,
                level |-> ColumnLevelFromSource(column)], column.values)

\* inferTemporalLevel: the loop over the values of one column
ScanColumn(column) ==
    ScanValues([hasValue |-> FALSE, hasYear |-> FALSE,
                level |-> ColumnLevelFromSource(column)], column.values)

\* inferTemporalLevel: the loop over the columns, then the final switch
RECURSIVE InferLoop(_, _)
InferLoop(acc, columns) ==
    IF columns = <<>> THEN acc
    ELSE LET c == ScanColumn(Head(columns))
             next == IF ~c.hasValue THEN acc
                     ELSE [level |-> IF getTemporalLevelRank(c.level)
                                          > getTemporalLevelRank(acc.level)
                                       THEN c.level ELSE acc.level,
                           hasYearContext |-> acc.hasYearContext \/ c.hasYear]
         IN  InferLoop(next, Tail(columns))

inferTemporalLevel(columns) ==
    LET r == InferLoop([level |-> "none", hasYearContext |-> FALSE], columns)
        level == IF r.level = "none" /\ r.hasYearContext THEN "year" ELSE r.level
    IN  [level |-> level,
         hasYearContext |-> IF level \in {"year", "date"} THEN TRUE ELSE r.hasYearContext]

(* The inputs: one column of an endpoint role whose values are null, NaN or
   a number at or next to a threshold of the epoch ranges. *)
N999999999 == Big(999, 999999)
N1000000000 == Big(1000, 0)
N1000000000000 == Big(1000000, 0)

EpochNumbers ==
    {Big(0, 0), Big(0, 3), Big(0, 2024),
     N999999999, N1000000000, Big(1700, 0), Big(9999, 999999),
     Big(10000, 0), Big(99999, 999999), Big(100000, 0),
     Big(999999, 999999), N1000000000000, Big(1700000, 0),
     Big(9999999, 999999), Big(10000000, 0),
     BigNeg(999, 999999), BigNeg(1000, 0), BigNeg(20000, 0), BigNeg(1700000, 0)}

EpochValues == EpochNumbers \cup {NullV, NaNV}

EpochColumnSet ==
    [name : TimelineNames, dateTyped : BOOLEAN,
     values : UNION {[1..n -> EpochValues] : n \in 1..MaxEpochRows}]

NoEpochOut == [normalized |-> <<>>]

EpochInit ==
    /\ epochColumns \in {<<c>> : c \in EpochColumnSet}
    /\ epochOut = NoEpochOut
    /\ epochPc = "input"

EpochIdle ==
    /\ epochColumns = <<>>
    /\ epochOut = NoEpochOut
    /\ epochPc = "idle"

EpochRows == 1..Len(epochColumns[1].values)

\* resolveTimelineValue's last loop: toTimelineValue of every value of the column
EpochNormalize ==
    /\ epochPc = "input"
    /\ epochOut' = [normalized |-> [r \in EpochRows |->
                                       toTimelineValue(epochColumns[1].values[r])]]
    /\ epochPc' = "normalized"
    /\ UNCHANGED epochColumns
    /\ UNCHANGED notEpochVars

\* normalizeEpochNumber on values that were normalized before
EpochNormalizeAgain ==
    /\ epochPc = "normalized"
    /\ epochOut' = [normalized |-> epochOut.normalized,
                    again |-> [r \in EpochRows |->
                                  toTimelineValue(epochOut.normalized[r])]]
    /\ epochPc' = "renormalized"
    /\ UNCHANGED epochColumns
    /\ UNCHANGED notEpochVars

\* transform: inferTemporalLevel(temporalColumns) and hasYearInRow(startColumns, i)
EpochClassify ==
    /\ epochPc = "renormalized"
    /\ epochOut' = [normalized |-> epochOut.normalized,
                    again |-> epochOut.again,
                    epochLike |-> [r \in EpochRows |->
                                      isEpochLike(epochColumns[1].values[r])],
                    hasYear |-> [r \in EpochRows |-> hasYearInRow(epochColumns, r - 1)],
                    temporal |-> inferTemporalLevel(epochColumns)]
    /\ epochPc' = "classified"
    /\ UNCHANGED epochColumns
    /\ UNCHANGED notEpochVars

EpochNext ==
    \/ EpochNormalize
    \/ EpochNormalizeAgain
    \/ EpochClassify

-----------------------------------------------------------------------------
(* Heatmap: month-year sort key (HeatmapTransformer.ts) *)

(* A string that is parsed is a sequence of one-character strings. *)
UpperLetters == <<"A", "B", "C", "D", "E", "F", "G", "H", "I", "J", "K", "L", "M",
                  "N", "O", "P", "Q", "R", "S", "T", "U", "V", "W", "X", "Y", "Z">>
LowerLetters == <<"a", "b", "c", "d", "e", "f", "g", "h", "i", "j", "k", "l", "m",
                  "n", "o", "p", "q", "r", "s", "t", "u", "v", "w", "x", "y", "z">>
Digits == <<"0", "1", "2", "3", "4", "5", "6", "7", "8", "9">>

IsUpper(c) == \E i \in 1..Len(UpperLetters) : UpperLetters[i] = c
IsLower(c) == \E i \in 1..Len(LowerLetters) : LowerLetters[i] = c
IsLetter(c) == IsUpper(c) \/ IsLower(c)                 \* [A-Za-z]
IsDigit(c) == \E i \in 1..Len(Digits) : Digits[i] = c   \* \d
IsSpace(c) == c \in {" ", "\t"}                         \* \s

DigitValue(c) == (CHOOSE i \in 1..Len(Digits) : Digits[i] = c) - 1

\* String.prototype.toLowerCase
LowerChar(c) ==
    IF IsUpper(c)
    THEN LowerLetters[CHOOSE i \in 1..Len(UpperLetters) : UpperLetters[i] = c]
    ELSE c
ToLowerCase(str) == [i \in 1..Len(str) |-> LowerChar(str[i])]

\* String.prototype.trim
RECURSIVE TrimStart(_)
TrimStart(str) ==
    IF str # <<>> /\ IsSpace(Head(str)) THEN TrimStart(Tail(str)) ELSE str
RECURSIVE TrimEnd(_)
TrimEnd(str) ==
    IF str # <<>> /\ IsSpace(str[Len(str)])
    THEN TrimEnd(SubSeq(str, 1, Len(str) - 1))
    ELSE str
Trim(str) == TrimEnd(TrimStart(str))

\* Number(digits) for a string of digits
RECURSIVE NumberOfDigits(_)
NumberOfDigits(str) ==
    IF str = <<>> THEN 0
    ELSE NumberOfDigits(SubSeq(str, 1, Len(str) - 1)) * 10 + DigitValue(str[Len(str)])

AllDigits(str) == \A i \in 1..Len(str) : IsDigit(str[i])

\* MONTHS[m[1].toLowerCase()], 0 for undefined
MONTHS(abbr) ==
    CASE abbr = <<"j", "a", "n">> -> 1
      [] abbr = <<"f", "e", "b">> -> 2
      [] abbr = <<"m", "a", "r">> -> 3
      [] abbr = <<"a", "p", "r">> -> 4
      [] abbr = <<"m", "a", "y">> -> 5
      [] abbr = <<"j", "u", "n">> -> 6
      [] abbr = <<"j", "u", "l">> -> 7
      [] abbr = <<"a", "u", "g">> -> 8
      [] abbr = <<"s", "e", "p">> -> 9
      [] abbr = <<"o", "c", "t">> -> 10
      [] abbr = <<"n", "o", "v">> -> 11
      [] abbr = <<"d", "e", "c">> -> 12
      [] OTHER -> 0

\* /^([A-Za-z]{3})[-\s](\d{2}|\d{4})$/
MatchesMonthYear(str) ==
    /\ Len(str) \in {6, 8}
    /\ \A i \in 1..3 : IsLetter(str[i])
    /\ str[4] = "-" \/ IsSpace(str[4])
    /\ \A i \in 5..Len(str) : IsDigit(str[i])

\* /^(\d{4})-(\d{2})$/
MatchesYearMonth(str) ==
    /\ Len(str) = 7
    /\ \A i \in 1..4 : IsDigit(str[i])
    /\ str[5] = "-"
    /\ \A i \in 6..7 : IsDigit(str[i])

\* yearRaw <= 79 ? 2000 + yearRaw : 1900 + yearRaw
TwoDigitYear(yearRaw) == IF yearRaw <= 79 THEN 2000 + yearRaw ELSE 1900 + yearRaw

parseMonthYearKey(s) ==
    LET str == Trim(s)
    IN  IF str = <<>> THEN NullV
        ELSE IF MatchesMonthYear(str)
        THEN LET month == MONTHS(ToLowerCase(SubSeq(str, 1, 3)))
                 digits == SubSeq(str, 5, Len(str))
                 yearRaw == NumberOfDigits(digits)
                 year == IF Len(digits) = 2 THEN TwoDigitYear(yearRaw) ELSE yearRaw
             IN  IF month = 0 THEN NullV ELSE Num(year * 100 + month)
        ELSE IF MatchesYearMonth(str)
        THEN Num(NumberOfDigits(SubSeq(str, 1, 4)) * 100 + NumberOfDigits(SubSeq(str, 6, 7)))
        ELSE NullV

\* normalizeSortValue for a string value (a string sort key is [k |-> "str"])
normalizeSortValue(value, labelFallback) ==
    LET parsed == parseMonthYearKey(value)
    IN  IF parsed # NullV THEN parsed
        ELSE [k |-> "str", s |-> ToLowerCase(value)]

(* The inputs: a first part, a separator and a second part, and some strings
   of other shapes. *)
SortFirstParts == {<<"M", "a", "r">>, <<"J", "u", "n">>, <<"J", "U", "N">>,
                   <<"A", "b", "c">>, <<"2", "0", "2", "4">>}
SortSeparators == {<<"-">>, <<" ">>}
SortSecondParts == {<<"2", "0", "2", "4">>, <<"2", "4">>, <<"8", "0">>,
                    <<"1", "3">>, <<"0", "3">>}
SortOtherStrings ==
    {<<>>,
     <<" ", "M", "a", "r", "-", "2", "0", "2", "4", " ">>,
     <<"M", "a", "r", "/", "2", "0", "2", "4">>,
     <<"M", "a", "r", "2", "0", "2", "4">>,
     <<"M", "a", "r", "c", "-", "2", "0", "2", "4">>,
     <<"M", "a", "r", "-", "2", "0", "2">>,
     <<"2", "0", "2", "4", "-", "3">>,
     <<"Q", "1", " ", "2", "0", "2", "4">>}

SortStrings ==
    {a \o sep \o b : a \in SortFirstParts, sep \in SortSeparators, b \in SortSecondParts}
        \cup SortOtherStrings

SortInit ==
    /\ sortLabels \in UNION {[1..n -> SortStrings] : n \in 1..MaxSortLabels}
    /\ sortKeys = <<>>
    /\ sortPc = "input"

SortIdle ==
    /\ sortLabels = <<>>
    /\ sortKeys = <<>>
    /\ sortPc = "idle"

\* sortParts.push(normalizeSortValue(raw, label)) for every label
SortKeyLabels ==
    /\ sortPc = "input"
    /\ sortKeys' = [i \in 1..Len(sortLabels) |->
                       normalizeSortValue(sortLabels[i], sortLabels[i])]
    /\ sortPc' = "keyed"
    /\ UNCHANGED sortLabels
    /\ UNCHANGED notSortVars

SortNext == SortKeyLabels

-----------------------------------------------------------------------------
(* Highlight override of a row (heatmap, line, donut, bump transformers) *)

\* Number(v) for null, undefined and numbers
ToNumber(v) ==
    CASE v.k = "null" -> Num(0)
      [] v.k = "undefined" -> NaNV
      [] OTHER -> v

\* Number(v) || 0
NumberOrZero(v) ==
    LET n == ToNumber(v)
    IN  IF IsFiniteNumber(n) /\ n.n # 0 THEN n ELSE Num(0)

\* x !== null && x !== undefined
IsPresent(v) == v.k \notin {"null", "undefined"}

\* array[i], undefined past the end; i counts from 1
ElementAt(array, i) == IF i \in 1..Len(array) THEN array[i] ELSE UndefinedV

\* highlights && highlights[i] !== null && highlights[i] !== undefined
HasHighlight(hasHighlights, highlights, i) ==
    hasHighlights /\ IsPresent(ElementAt(highlights, i))

\* heatmap: Number(highlight present ? highlight : value) || 0
HeatmapCellValue(value, highlight) ==
    NumberOrZero(IF IsPresent(highlight) THEN highlight ELSE value)

\* A plausible slip: the highlight added to the base value
LineRowValueSummed(base, hasHighlight, highlight) ==
    LET rawValue == ToNumber(base)
        highlightValue == IF hasHighlight THEN ToNumber(highlight) ELSE Num(0)
    IN  IF IsFiniteNumber(rawValue) /\ IsFiniteNumber(highlightValue)
        THEN Num(rawValue.n + highlightValue.n)
        ELSE NaNV

\* line: Number.isFinite(hasHighlight ? highlightValue : rawValue) ? that : NaN
LineRowValue(base, hasHighlight, highlight) ==
    LET rawValue == ToNumber(base)
        chosen == IF hasHighlight THEN ToNumber(highlight) ELSE rawValue
    IN  IF IsFiniteNumber(chosen) THEN chosen ELSE NaNV

\* A plausible slip: value = rawValue + highlightValue
DonutRowValueSummed(base, hasHighlight, highlight) ==
    LET rawValue == NumberOrZero(base)
        highlightValue == IF hasHighlight THEN NumberOrZero(highlight) ELSE Num(0)
    IN  Num(rawValue.n + highlightValue.n)

\* donut: value = hasPointHighlight ? highlightValue : rawValue
DonutRowValue(base, hasHighlight, highlight) ==
    LET rawValue == NumberOrZero(base)
        highlightValue == IF hasHighlight THEN NumberOrZero(highlight) ELSE Num(0)
    IN  IF hasHighlight THEN highlightValue ELSE rawValue

\* bump: value = hasHighlight ? highlightValue : rawValue
BumpRowValue(base, hasHighlight, highlight) ==
    LET rawValue == NumberOrZero(base)
        highlightValue == IF hasHighlight THEN NumberOrZero(highlight) ELSE Num(0)
    IN  IF hasHighlight THEN highlightValue ELSE rawValue

(* The inputs of the highlight override: one row or cell. *)
HighlightBases == {NullV, UndefinedV, NaNV, Num(0), Num(1), Num(2), Num(-3)}
HighlightValues == {NullV, UndefinedV, NaNV, Num(0), Num(5), Num(-1)}

NoHighlightOut == [chart |-> "none"]

HighlightInit ==
    /\ hlBase \in HighlightBases
    /\ hlHighlights \in BOOLEAN
    /\ hlHighlight \in HighlightValues
    /\ hlOut = NoHighlightOut
    /\ hlPc = "input"

HighlightIdle ==
    /\ hlBase = NullV
    /\ hlHighlights = FALSE
    /\ hlHighlight = NullV
    /\ hlOut = NoHighlightOut
    /\ hlPc = "idle"

\* heatmap: a cell without a highlight has nodeValue.highlight undefined
HighlightHeatmap ==
    /\ hlPc = "input"
    /\ hlOut' = [chart |-> "heatmap",
                 value |-> HeatmapCellValue(hlBase,
                               IF hlHighlights THEN hlHighlight ELSE UndefinedV)]
    /\ hlPc' = "done"
    /\ UNCHANGED <<hlBase, hlHighlights, hlHighlight>>
    /\ UNCHANGED notHlVars

HighlightLine ==
    /\ hlPc = "input"
    /\ hlOut' = [chart |-> "line",
                 value |-> LineRowValue(hlBase,
                               HasHighlight(hlHighlights, <<hlHighlight>>, 1), hlHighlight)]
    /\ hlPc' = "done"
    /\ UNCHANGED <<hlBase, hlHighlights, hlHighlight>>
    /\ UNCHANGED notHlVars

HighlightDonut ==
    /\ hlPc = "input"
    /\ hlOut' = [chart |-> "donut",
                 value |-> DonutRowValue(hlBase,
                               HasHighlight(hlHighlights, <<hlHighlight>>, 1), hlHighlight)]
    /\ hlPc' = "done"
    /\ UNCHANGED <<hlBase, hlHighlights, hlHighlight>>
    /\ UNCHANGED notHlVars

HighlightBump ==
    /\ hlPc = "input"
    /\ hlOut' = [chart |-> "bump",
                 value |-> BumpRowValue(hlBase,
                               HasHighlight(hlHighlights, <<hlHighlight>>, 1), hlHighlight)]
    /\ hlPc' = "done"
    /\ UNCHANGED <<hlBase, hlHighlights, hlHighlight>>
    /\ UNCHANGED notHlVars

HighlightNext == HighlightHeatmap \/ HighlightLine \/ HighlightDonut \/ HighlightBump

-----------------------------------------------------------------------------
(* Inline-labels line: aggregation accumulator (InlineLabelsLineTransformer.ts) *)

LINE_KEY_SEP == <<"|", "|">>
AllLabel == <<"A", "l", "l">>

NoLineModel == [dataPoints |-> <<>>]

\* seriesKeyRaw.trim() ? seriesKeyRaw.trim() : "All"
SeriesKey(seriesKeyRaw) == IF Trim(seriesKeyRaw) # <<>> THEN Trim(seriesKeyRaw) ELSE AllLabel

\* `${groupValue}||${seriesKey}||${xValue}`
AccKey(groupValue, seriesKey, xValue) ==
    groupValue \o LINE_KEY_SEP \o seriesKey \o LINE_KEY_SEP \o xValue

\* A plausible slip: a NaN on either side makes the sum NaN
AccumulateValuePlain(a, b) ==
    IF IsFiniteNumber(a) /\ IsFiniteNumber(b) THEN Num(a.n + b.n) ELSE NaNV

\* if (finite(a) && finite(b)) prev.value = a + b; else if (!finite(a) && finite(b)) prev.value = b
AccumulateValue(a, b) ==
    IF IsFiniteNumber(a) /\ IsFiniteNumber(b) THEN Num(a.n + b.n)
    ELSE IF ~IsFiniteNumber(a) /\ IsFiniteNumber(b) THEN b
    ELSE a

\* acc.get(key): the position of the entry, 0 when there is none
AccIndex(acc, key) ==
    IF \E n \in 1..Len(acc) : acc[n].key = key
    THEN CHOOSE n \in 1..Len(acc) : acc[n].key = key
    ELSE 0

\* The value and value2 that row i of value group vg contributes
RowValue(vg, i) ==
    LineRowValue(ElementAt(vg.values, i),
                 HasHighlight(vg.hasHighlights, vg.highlights, i),
                 ElementAt(vg.highlights, i))
RowValue2(vg, i) ==
    LineRowValue(ElementAt(vg.values2, i),
                 HasHighlight(vg.hasHighlights2, vg.highlights2, i),
                 ElementAt(vg.highlights2, i))

\* One iteration of the inner loop: row i of value group vg
AccumulateRow(acc, rows, vg, i) ==
    LET xValue == rows[i].x
        seriesKey == SeriesKey(rows[i].series)
        value == RowValue(vg, i)
        value2 == RowValue2(vg, i)
        key == AccKey(vg.groupValue, seriesKey, xValue)
        at == AccIndex(acc, key)
    IN  IF at = 0
        THEN Append(acc, [key |-> key, xValue |-> xValue, seriesKey |-> seriesKey,
                          groupValue |-> vg.groupValue,
                          value |-> IF IsFiniteNumber(value) THEN value ELSE NaNV,
                          value2 |-> IF IsFiniteNumber(value2) THEN value2 ELSE NaNV])
        ELSE [acc EXCEPT ![at].value = AccumulateValue(acc[at].value, value),
                         ![at].value2 = AccumulateValue(acc[at].value2, value2)]

\* The finite numbers among the values of a sequence
FiniteOf(values) == {values[n].n : n \in {m \in 1..Len(values) : IsFiniteNumber(values[m])}}
MaxOf(S) == CHOOSE m \in S : \A n \in S : n <= m
MinOf(S) == CHOOSE m \in S : \A n \in S : m <= n

\* "Materialize points" and the min/max defaults of the returned model
Materialize(acc) ==
    LET finite == FiniteOf([n \in 1..Len(acc) |-> acc[n].value])
        finite2 == FiniteOf([n \in 1..Len(acc) |-> acc[n].value2])
    IN  [dataPoints |-> [n \in 1..Len(acc) |->
                            [xValue |-> acc[n].xValue, yValue |-> acc[n].seriesKey,
                             value |-> acc[n].value, value2 |-> acc[n].value2,
                             groupValue |-> acc[n].groupValue, index |-> n - 1]],
         maxValue |-> IF finite = {} THEN 1 ELSE MaxOf(finite),
         minValue |-> IF finite = {} THEN 0 ELSE MinOf(finite),
         maxValue2 |-> IF finite2 = {} THEN 1 ELSE MaxOf(finite2),
         minValue2 |-> IF finite2 = {} THEN 0 ELSE MinOf(finite2)]

(* The inputs.  The x label of a row is the string the code made of the x
   category value.  One family has the ungrouped view (one value group "All")
   with a highlights array and a secondary measure, all rows on one or two
   keys; the other has grouped views whose group and series labels contain
   the separator, every value 1. *)
LineBases == {Num(1), Num(2), NaNV, NullV}
LineHighlights == {NullV, Num(5)}
LineSeconds == {NaNV, Num(7)}
LineGroupLabels == {<<"A">>, <<"A", "|", "|", "B">>}
LineSeriesLabels == {<<"C">>, <<"B", "|", "|", "C">>}
LineXLabels == {<<"x", "1">>, <<"x", "2">>}

LineInitValues ==
    \E n \in 1..MaxLineRows :
        /\ lineRows = [i \in 1..n |-> [x |-> <<"x", "1">>, series |-> <<"S">>]]
        /\ \E values \in [1..n -> LineBases], highlights \in [1..n -> LineHighlights],
              values2 \in [1..n -> LineSeconds] :
              lineGroups = <<[groupValue |-> AllLabel, values |-> values,
                              hasHighlights |-> TRUE, highlights |-> highlights,
                              values2 |-> values2,
                              hasHighlights2 |-> FALSE, highlights2 |-> <<>>]>>

LineInitKeys ==
    \E n \in 1..MaxLineRows :
        /\ lineRows \in [1..n -> [x : LineXLabels, series : LineSeriesLabels]]
        /\ \E names \in SeqsUpTo(LineGroupLabels, 2) :
              /\ names # <<>>
              /\ \A a, b \in 1..Len(names) : names[a] = names[b] => a = b
              /\ lineGroups = [g \in 1..Len(names) |->
                                 [groupValue |-> names[g],
                                  values |-> [i \in 1..n |-> Num(1)],
                                  hasHighlights |-> FALSE, highlights |-> <<>>,
                                  values2 |-> <<>>,
                                  hasHighlights2 |-> FALSE, highlights2 |-> <<>>]]

LineInit ==
    /\ LineInitValues \/ LineInitKeys
    /\ lineAt = [g |-> 1, i |-> 1]
    /\ lineAcc = <<>>
    /\ lineModel = NoLineModel
    /\ linePc = "rows"

LineIdle ==
    /\ lineRows = <<>>
    /\ lineGroups = <<>>
    /\ lineAt = [g |-> 0, i |-> 0]
    /\ lineAcc = <<>>
    /\ lineModel = NoLineModel
    /\ linePc = "idle"

\* for (const vg of valueGroups) for (let i = 0; i < values.length; i++) { ... }
LineAccumulate ==
    /\ linePc = "rows"
    /\ LET vg == lineGroups[lineAt.g]
       IN  /\ lineAcc' = AccumulateRow(lineAcc, lineRows, vg, lineAt.i)
           /\ IF lineAt.i < Len(vg.values)
              THEN /\ lineAt' = [lineAt EXCEPT !.i = lineAt.i + 1]
                   /\ linePc' = "rows"
              ELSE IF lineAt.g < Len(lineGroups)
              THEN /\ lineAt' = [g |-> lineAt.g + 1, i |-> 1]
                   /\ linePc' = "rows"
              ELSE /\ lineAt' = lineAt
                   /\ linePc' = "collected"
    /\ UNCHANGED <<lineRows, lineGroups, lineModel>>
    /\ UNCHANGED notLineVars

\* for (const v of acc.values()) dataPoints.push(...); return {...}
LineMaterialize ==
    /\ linePc = "collected"
    /\ lineModel' = Materialize(lineAcc)
    /\ linePc' = "done"
    /\ UNCHANGED <<lineRows, lineGroups, lineAt, lineAcc>>
    /\ UNCHANGED notLineVars

LineNext == LineAccumulate \/ LineMaterialize

-----------------------------------------------------------------------------
(* Heatmap: transformMatrix (HeatmapTransformer.ts) *)

NoHeatmapModel == [groups |-> <<>>]
NoSettings == [showRowTotals |-> FALSE, showColumnTotals |-> FALSE,
               rowTotalsPosition |-> "top", columnTotalsPosition |-> "right"]

\* (groupValue ?? "").trim() ? groupValue : "All"; "" is a leaf without a group
\* value or with an empty one, " " a blank one
GroupKey(groupValue) == IF groupValue \in {"", " "} THEN "All" ELSE groupValue

\* groupNames.sort((a, b) => a.localeCompare(b)), for the group names of the model
GroupOrder == <<"All", "G1", "G2">>
SortedGroupNames(names) ==
    LET IsName(g) == g \in names
    IN  SelectSeq(GroupOrder, IsName)

\* The X leaves: labels that normalizeSortValue leaves strings, so that
\* anySortableNumber is false and the leaves keep the traversal order
XLeafPaths(matrix) == matrix.columns
XLeafKeys(matrix) ==
    [c \in 1..Len(matrix.columns) |-> LeafKey(matrix.columns[c], "col", c - 1)]

\* yParts.join(KEY_SEP) || `row${rowLeafGlobalCounter}`
RowLeafKey(matrix, r) == LeafKey(matrix.rows[r].yParts, "row", r - 1)

\* rowsByGroup.get(groupName): the row leaves of a group, in traversal order
RECURSIVE BucketFrom(_, _, _)
BucketFrom(matrix, groupName, r) ==
    IF r > Len(matrix.rows) THEN <<>>
    ELSE (IF GroupKey(matrix.rows[r].group) = groupName THEN <<r>> ELSE <<>>)
             \o BucketFrom(matrix, groupName, r + 1)
Bucket(matrix, groupName) == BucketFrom(matrix, groupName, 1)

GroupNames(matrix) ==
    LET names == {GroupKey(matrix.rows[r].group) : r \in 1..Len(matrix.rows)}
    IN  IF names = {} THEN <<"All">> ELSE SortedGroupNames(names)

\* The loop over the value keys of one row leaf, from cell idx (counted from 1) on
RECURSIVE CellPointsFrom(_, _, _, _)
CellPointsFrom(matrix, groupName, r, idx) ==
    IF idx > Len(matrix.rows[r].cells) THEN <<>>
    ELSE LET cell == matrix.rows[r].cells[idx]
             rest == CellPointsFrom(matrix, groupName, r, idx + 1)
         IN  IF idx > Len(matrix.columns)      \* if (!colKey) continue
             THEN rest
             ELSE <<[xValue |-> XLeafKeys(matrix)[idx],
                     yValue |-> RowLeafKey(matrix, r),
                     value |-> HeatmapCellValue(cell.value, cell.highlight).n,
                     groupValue |-> groupName]>> \o rest

RECURSIVE BucketPointsFrom(_, _, _, _)
BucketPointsFrom(matrix, groupName, bucket, b) ==
    IF b > Len(bucket) THEN <<>>
    ELSE CellPointsFrom(matrix, groupName, bucket[b], 1)
             \o BucketPointsFrom(matrix, groupName, bucket, b + 1)

RECURSIVE GroupPointsFrom(_, _, _)
GroupPointsFrom(matrix, groupNames, g) ==
    IF g > Len(groupNames) THEN <<>>
    ELSE BucketPointsFrom(matrix, groupNames[g], Bucket(matrix, groupNames[g]), 1)
             \o GroupPointsFrom(matrix, groupNames, g + 1)

\* dataPoints.push({xValue, yValue, value, groupValue, index: dataPointIndex++})
HeatmapDataPoints(matrix) ==
    LET points == GroupPointsFrom(matrix, GroupNames(matrix), 1)
    IN  [n \in 1..Len(points) |->
            [xValue |-> points[n].xValue, yValue |-> points[n].yValue,
             value |-> points[n].value, groupValue |-> points[n].groupValue,
             index |-> n - 1]]

\* map.get(key) ?? 0
MapGet(map, key) == IF key \in DOMAIN map THEN map[key] ELSE 0

\* A plausible slip: map.set(key, value)
MapAddOverwrite(map, key, value) ==
    [k \in DOMAIN map \cup {key} |-> IF k = key THEN value ELSE map[k]]

\* map.set(key, (map.get(key) ?? 0) + value)
MapAdd(map, key, value) ==
    [k \in DOMAIN map \cup {key} |-> IF k = key THEN MapGet(map, key) + value ELSE map[k]]

EmptyMap == [k \in {} |-> 0]
EmptyTotals == [rowTotalsByX |-> EmptyMap, colTotalsByY |-> EmptyMap, grandTotal |-> 0]

\* One iteration of "for (const dp of dataPoints)" on totalsByGroup
AddPointToTotals(totalsByGroup, dp) ==
    LET groupKey == GroupKey(dp.groupValue)
        t == IF groupKey \in DOMAIN totalsByGroup THEN totalsByGroup[groupKey] ELSE EmptyTotals
        next == [rowTotalsByX |-> MapAdd(t.rowTotalsByX, dp.xValue, dp.value),
                 colTotalsByY |-> MapAdd(t.colTotalsByY, dp.yValue, dp.value),
                 grandTotal |-> t.grandTotal + dp.value]
    IN  [g \in DOMAIN totalsByGroup \cup {groupKey} |->
            IF g = groupKey THEN next ELSE totalsByGroup[g]]

RECURSIVE TotalsOver(_, _)
TotalsOver(dataPoints, n) ==
    IF n = 0 THEN [g \in {} |-> EmptyTotals]
    ELSE AddPointToTotals(TotalsOver(dataPoints, n - 1), dataPoints[n])

\* ... and the groups without a data point get empty totals
TotalsByGroup(dataPoints, groupNames) ==
    LET totals == TotalsOver(dataPoints, Len(dataPoints))
    IN  [g \in DOMAIN totals \cup {groupNames[n] : n \in 1..Len(groupNames)} |->
            IF g \in DOMAIN totals THEN totals[g] ELSE EmptyTotals]

\* overallGrandTotal += dp.value
RECURSIVE OverallGrandTotal(_, _)
OverallGrandTotal(dataPoints, n) ==
    IF n = 0 THEN 0 ELSE OverallGrandTotal(dataPoints, n - 1) + dataPoints[n].value

\* A plausible slip: the total leaf at the end goes before the last leaf
WithTotalLeafBeforeLast(axisIn, totalKey, atStart) ==
    LET insertAt == IF atStart THEN 0 ELSE Max(0, Len(axisIn.leafKeys) - 1)
    IN  buildAxisHierarchyFromLeafPaths(
            InsertAt(axisIn.leafKeys, insertAt, totalKey),
            InsertAt(axisIn.leafPaths, insertAt, makeTotalPath(axisIn.depth)))

\* The total leaf spliced into an axis
WithTotalLeaf(axisIn, totalKey, atStart) ==
    LET insertAt == IF atStart THEN 0 ELSE Len(axisIn.leafKeys)
    IN  buildAxisHierarchyFromLeafPaths(
            InsertAt(axisIn.leafKeys, insertAt, totalKey),
            InsertAt(axisIn.leafPaths, insertAt, makeTotalPath(axisIn.depth)))

RECURSIVE Flatten(_)
Flatten(seqs) == IF seqs = <<>> THEN <<>> ELSE Head(seqs) \o Flatten(Tail(seqs))

transformMatrix(matrix, settings) ==
    LET xAxis == buildAxisHierarchyFromLeafPaths(XLeafKeys(matrix), XLeafPaths(matrix))
        groupNames == GroupNames(matrix)
        groupSet == {groupNames[n] : n \in 1..Len(groupNames)}
        yAxisOf(g) ==
            LET bucket == Bucket(matrix, g)
            IN  buildAxisHierarchyFromLeafPaths(
                    [b \in 1..Len(bucket) |-> RowLeafKey(matrix, bucket[b])],
                    [b \in 1..Len(bucket) |-> matrix.rows[bucket[b]].yParts])
        dataPoints == HeatmapDataPoints(matrix)
        values == {dataPoints[n].value : n \in 1..Len(dataPoints)}
        positive == {v \in values : v > 0}
        yAxisByGroup ==
            [g \in groupSet |->
                IF settings.showRowTotals
                THEN WithTotalLeaf(yAxisOf(g), TOTAL_ROW_KEY, settings.rowTotalsPosition = "top")
                ELSE yAxisOf(g)]
        xAxisOut ==
            IF settings.showColumnTotals
            THEN WithTotalLeaf(xAxis, TOTAL_COL_KEY, settings.columnTotalsPosition = "left")
            ELSE xAxis
    IN  [dataPoints |-> dataPoints,
         xValues |-> xAxisOut.leafKeys,
         yValues |-> Flatten([n \in 1..Len(groupNames) |-> yAxisByGroup[groupNames[n]].leafKeys]),
         groups |-> groupNames,
         maxValue |-> MaxOf(values \cup {0}),
         minValue |-> IF positive = {} THEN 0 ELSE MinOf(positive),
         xAxis |-> xAxisOut,
         yAxisByGroup |-> yAxisByGroup,
         totalsByGroup |-> TotalsByGroup(dataPoints, groupNames),
         overallGrandTotal |-> OverallGrandTotal(dataPoints, Len(dataPoints)),
         totalRowKey |-> TOTAL_ROW_KEY,
         totalColumnKey |-> TOTAL_COL_KEY]

(* The inputs: one or two column leaves of one level, up to MaxHeatmapRows row
   leaves of one Y level under no group or one of two groups, one measure,
   two cells per row leaf (the second has no column when there is one column
   leaf). *)
HeatmapColumns == {<<<<"c1">>>>, <<<<"c1">>, <<"c2">>>>}
HeatmapCell(value, highlight) == [value |-> value, highlight |-> highlight]
HeatmapCellRows ==
    {<<HeatmapCell(Num(1), UndefinedV), HeatmapCell(Num(2), UndefinedV)>>,
     <<HeatmapCell(Num(1), Num(5)), HeatmapCell(Num(2), NullV)>>,
     <<HeatmapCell(Num(3), Num(0)), HeatmapCell(NullV, UndefinedV)>>}
HeatmapRowLeaves ==
    [group : {"", "G1", "G2"}, yParts : {<<"r1">>, <<"r2">>}, cells : HeatmapCellRows]
HeatmapSettings ==
    [showRowTotals : BOOLEAN, showColumnTotals : BOOLEAN,
     rowTotalsPosition : {"top", "bottom"}, columnTotalsPosition : {"left", "right"}]

\* A plausible slip: the fallback without the empty axis hierarchy
transformNoAxis(dataView, settings) ==
    IF dataView.matrix # UndefinedV THEN transformMatrix(dataView.matrix, settings)
    ELSE [dataPoints |-> <<>>, xValues |-> <<>>, yValues |-> <<>>, groups |-> <<>>,
          maxValue |-> 0, minValue |-> 0,
          xAxis |-> NoAxis,
          yAxisByGroup |-> EmptyMap, totalsByGroup |-> EmptyMap,
          overallGrandTotal |-> 0,
          totalRowKey |-> TOTAL_ROW_KEY, totalColumnKey |-> TOTAL_COL_KEY]

\* HeatmapTransformer.transform: transformMatrix of the view's matrix, or the
\* empty chart data of a view that has none
transform(dataView, settings) ==
    IF dataView.matrix # UndefinedV THEN transformMatrix(dataView.matrix, settings)
    ELSE [dataPoints |-> <<>>, xValues |-> <<>>, yValues |-> <<>>, groups |-> <<>>,
          maxValue |-> 0, minValue |-> 0,
          xAxis |-> buildAxisHierarchyFromLeafPaths(<<>>, <<>>),
          yAxisByGroup |-> EmptyMap, totalsByGroup |-> EmptyMap,
          overallGrandTotal |-> 0,
          totalRowKey |-> TOTAL_ROW_KEY, totalColumnKey |-> TOTAL_COL_KEY]

\* The data view has a matrix, or none (hmMatrix is undefined)
HeatmapInit ==
    /\ hmMatrix \in [columns : HeatmapColumns,
                      rows : SeqsUpTo(HeatmapRowLeaves, MaxHeatmapRows)]
                     \cup {UndefinedV}
    /\ hmSettings = NoSettings
    /\ hmModel = NoHeatmapModel
    /\ hmPc = "input"

HeatmapIdle ==
    /\ hmMatrix = [columns |-> <<>>, rows |-> <<>>]
    /\ hmSettings = NoSettings
    /\ hmModel = NoHeatmapModel
    /\ hmPc = "idle"

\* HeatmapTransformer.transform(dataView, settings); the call ends at "done"
\* with the data of the matrix, at "fallback" with the empty chart data
HeatmapTransform ==
    /\ hmPc = "input"
    /\ \E settings \in HeatmapSettings :
          /\ hmSettings' = settings
          /\ hmModel' = transform([matrix |-> hmMatrix], settings)
    /\ hmPc' = IF hmMatrix # UndefinedV THEN "done" ELSE "fallback"
    /\ UNCHANGED hmMatrix
    /\ UNCHANGED notHmVars

HeatmapNext == HeatmapTransform

-----------------------------------------------------------------------------
(* Timeline: transform of a numeric scale (WorldHistoryTimelineTransformer.ts) *)

(* A categorical view is [values, categories]: two sequences of columns
   [name, dateTyped, roles, values].  A role column is a reference
   [from, at] to a column of the view, so that the same column found twice
   is the same member of occupiedColumns.  A category cell is null or
   [k |-> "str", label]: a raw string with the label formatDataValue /
   formatGroupValue made of it, a sequence of one-character strings. *)
ValueColumnRefs(view) == [i \in 1..Len(view.values) |-> [from |-> "values", at |-> i]]
CategoryColumnRefs(view) ==
    [i \in 1..Len(view.categories) |-> [from |-> "categories", at |-> i]]

ColumnAt(view, ref) ==
    IF ref.from = "values" THEN view.values[ref.at] ELSE view.categories[ref.at]

ColumnsAt(view, refs) == [i \in 1..Len(refs) |-> ColumnAt(view, refs[i])]

getValueColumnsByRole(view, roleName) ==
    LET HasRole(ref) == roleName \in ColumnAt(view, ref).roles
    IN  SelectSeq(ValueColumnRefs(view), HasRole)

getRoleColumns(view, roleName, includeValues, includeCategories) ==
    LET HasRole(ref) == roleName \in ColumnAt(view, ref).roles
    IN  (IF includeValues THEN SelectSeq(ValueColumnRefs(view), HasRole) ELSE <<>>)
        \o (IF includeCategories THEN SelectSeq(CategoryColumnRefs(view), HasRole)
            ELSE <<>>)

\* The first value column of the role that is not excluded, else the first
\* value column that is not excluded, else null
fallbackValueColumn(view, preferredRoleName, exclude) ==
    LET NotExcluded(ref) == ref \notin exclude
        preferred == SelectSeq(getValueColumnsByRole(view, preferredRoleName), NotExcluded)
        candidates == SelectSeq(ValueColumnRefs(view), NotExcluded)
    IN  IF preferred # <<>> THEN Head(preferred)
        ELSE IF candidates # <<>> THEN Head(candidates)
        ELSE NullV

\* /\byear\b|\bquarter\b|\bqtr\b|\bmonth\b|\bday\b|\.year$|...|\.day$/ on the name
NameHasHierarchyHint(name) ==
    NameIsYear(name) \/ NameIsQuarter(name) \/ NameIsMonth(name) \/ NameIsDay(name)

hasHierarchyHints(columns) ==
    \E c \in 1..Len(columns) : NameHasHierarchyHint(columns[c].name)

\* isDateLikeColumn of a column with no format string and no string value
isDateLikeColumn(column) ==
    \/ column.dateTyped
    \/ NameHasHierarchyHint(column.name)
    \/ \E r \in 1..Len(column.values) :
          \/ column.values[r].k = "date"
          \/ column.values[r].k = "num" /\ isEpochLike(column.values[r])

isDateLikeColumns(columns) ==
    \E c \in 1..Len(columns) : isDateLikeColumn(columns[c])

\* resolveTimelineValue with preferDateHierarchy false: the columns from the
\* last to the first, the first finite toTimelineValue
RECURSIVE ResolveFrom(_, _, _)
ResolveFrom(columns, rowIndex, i) ==
    IF i = 0 THEN NullV
    ELSE LET parsed == toTimelineValue(ValueAt(columns[i], rowIndex))
         IN  IF IsFiniteNumber(parsed) THEN parsed
             ELSE ResolveFrom(columns, rowIndex, i - 1)

resolveTimelineValue(columns, rowIndex) == ResolveFrom(columns, rowIndex, Len(columns))

\* The integer of a number of the model that has one limb
YearNumber(v) == IF v.neg THEN 0 - v.lo ELSE v.lo

\* The characters of String(n) for n >= 0
RECURSIVE DecimalChars(_)
DecimalChars(n) ==
    IF n < 10 THEN <<Digits[n + 1]>>
    ELSE DecimalChars(n \div 10) \o <<Digits[(n % 10) + 1]>>

\* `Entry ${n}`
EntryLabel(n) == <<"E", "n", "t", "r", "y", " ">> \o DecimalChars(n)

WorldLabel == <<"W", "o", "r", "l", "d">>
LABEL_SEP == <<" ", "*", " ">>              \* stands for " • "

\* joinUniqueLabelParts: the loop over parts, merged and seen so far
RECURSIVE MergeParts(_, _, _)
MergeParts(parts, merged, seen) ==
    IF parts = <<>> THEN merged
    ELSE LET value == Trim(Head(parts))
             normalized == ToLowerCase(value)
         IN  IF value = <<>> \/ normalized \in seen
             THEN MergeParts(Tail(parts), merged, seen)
             ELSE MergeParts(Tail(parts), Append(merged, value), seen \cup {normalized})

RECURSIVE JoinChars(_, _)
JoinChars(parts, sep) ==
    IF parts = <<>> THEN <<>>
    ELSE IF Len(parts) = 1 THEN parts[1]
    ELSE parts[1] \o sep \o JoinChars(Tail(parts), sep)

joinUniqueLabelParts(parts, fallback) ==
    IF parts = <<>> THEN fallback
    ELSE LET merged == MergeParts(parts, <<>>, {})
         IN  IF merged # <<>> THEN JoinChars(merged, LABEL_SEP) ELSE fallback

\* joinCategoryLabel: the loop over the columns
RECURSIVE CategoryParts(_, _)
CategoryParts(columns, rowIndex) ==
    IF columns = <<>> THEN <<>>
    ELSE LET rawValue == ValueAt(Head(columns), rowIndex)
             rest == CategoryParts(Tail(columns), rowIndex)
         IN  IF rawValue.k \in {"null", "undefined"} THEN rest
             ELSE IF Trim(rawValue.label) # <<>> THEN <<rawValue.label>> \o rest
             ELSE rest

\* A plausible slip: every non-null label is a part, blank or not
joinCategoryLabelKeepBlank(columns, rowIndex, fallback) ==
    IF columns = <<>> THEN fallback
    ELSE LET rawValue == ValueAt(Head(columns), rowIndex)
         IN  IF rawValue.k \in {"null", "undefined"} THEN fallback
             ELSE rawValue.label

joinCategoryLabel(columns, rowIndex, fallback) ==
    IF columns = <<>> THEN fallback
    ELSE joinUniqueLabelParts(CategoryParts(columns, rowIndex), fallback)

joinGroupLabel(columns, rowIndex, fallback) ==
    IF columns = <<>> THEN fallback
    ELSE joinUniqueLabelParts([c \in 1..Len(columns) |->
                                  ValueAt(columns[c], rowIndex).label], fallback)

\* The role columns transform works with: startColumns, endColumns after the
\* fallbacks
TimelineStartColumns(view) ==
    LET startColumns == getRoleColumns(view, "startYear", TRUE, TRUE)
        endColumns == getRoleColumns(view, "endYear", TRUE, TRUE)
        occupiedColumns == {startColumns[i] : i \in 1..Len(startColumns)}
                           \cup {endColumns[i] : i \in 1..Len(endColumns)}
        fallbackStart == fallbackValueColumn(view, "startYear", occupiedColumns)
    IN  IF startColumns = <<>> /\ fallbackStart # NullV THEN <<fallbackStart>>
        ELSE startColumns

TimelineEndColumns(view) ==
    LET startColumns == TimelineStartColumns(view)
        endColumns == getRoleColumns(view, "endYear", TRUE, TRUE)
        occupiedColumns == {startColumns[i] : i \in 1..Len(startColumns)}
                           \cup {endColumns[i] : i \in 1..Len(endColumns)}
        fallbackEnd == fallbackValueColumn(view, "endYear", occupiedColumns)
        withFallback == IF endColumns = <<>> /\ fallbackEnd # NullV THEN <<fallbackEnd>>
                        ELSE endColumns
    IN  IF withFallback = <<>> /\ startColumns # <<>>
        THEN <<startColumns[Len(startColumns)]>>
        ELSE withFallback

\* A plausible slip: the endpoints are not swapped
TimelineRowOfUnswapped(items, resolvedStart, resolvedEnd, civilization, region, i) ==
    IF ~IsFiniteNumber(resolvedStart) /\ ~IsFiniteNumber(resolvedEnd) THEN items
    ELSE LET degradedStart == IF IsFiniteNumber(resolvedStart) THEN resolvedStart
                              ELSE resolvedEnd
             degradedEnd == IF IsFiniteNumber(resolvedEnd) THEN resolvedEnd
                            ELSE resolvedStart
             startYear == YearNumber(degradedStart)
             endYear == YearNumber(degradedEnd)
             duration == Max(0, endYear - startYear)
         IN  Append(items,
                    [xValue |-> ToString(startYear), yValue |-> civilization,
                     value |-> duration, groupValue |-> "All", index |-> i,
                     civilization |-> civilization, region |-> region,
                     startYear |-> startYear, endYear |-> endYear,
                     duration |-> duration])

\* The body of the loop over the rows for row i (from 0): the items with the
\* item of the row appended, or the items as they are when the row is skipped
\* (items and dataPoints are the same array of the same points)
TimelineRowOf(items, resolvedStart, resolvedEnd, civilization, region, i) ==
    IF ~IsFiniteNumber(resolvedStart) /\ ~IsFiniteNumber(resolvedEnd) THEN items
    ELSE LET degradedStart == IF IsFiniteNumber(resolvedStart) THEN resolvedStart
                              ELSE resolvedEnd
             degradedEnd == IF IsFiniteNumber(resolvedEnd) THEN resolvedEnd
                            ELSE resolvedStart
             swap == YearNumber(degradedEnd) < YearNumber(degradedStart)
             startYear == IF swap THEN YearNumber(degradedEnd)
                          ELSE YearNumber(degradedStart)
             endYear == IF swap THEN YearNumber(degradedStart)
                        ELSE YearNumber(degradedEnd)
             duration == Max(0, endYear - startYear)
         IN  Append(items,
                    [xValue |-> ToString(startYear), yValue |-> civilization,
                     value |-> duration, groupValue |-> "All", index |-> i,
                     civilization |-> civilization, region |-> region,
                     startYear |-> startYear, endYear |-> endYear,
                     duration |-> duration])

TimelineRow(items, civilizationColumns, regionColumns, startColumns, endColumns, i) ==
    TimelineRowOf(items,
                  resolveTimelineValue(startColumns, i),
                  resolveTimelineValue(endColumns, i),
                  joinCategoryLabel(civilizationColumns, i, EntryLabel(Len(items) + 1)),
                  joinGroupLabel(regionColumns, i, WorldLabel),
                  i)

RECURSIVE TimelineRows(_, _, _, _, _, _, _)
TimelineRows(items, civilizationColumns, regionColumns, startColumns, endColumns,
             i, rowCount) ==
    IF i >= rowCount THEN items
    ELSE TimelineRows(TimelineRow(items, civilizationColumns, regionColumns,
                                  startColumns, endColumns, i),
                      civilizationColumns, regionColumns, startColumns, endColumns,
                      i + 1, rowCount)

\* The regions, without duplicates, in the order of their first item
\* (before the sort by localeCompare)
RECURSIVE RegionsOf(_, _)
RegionsOf(items, seen) ==
    IF items = <<>> THEN <<>>
    ELSE IF Head(items).region \in seen THEN RegionsOf(Tail(items), seen)
    ELSE <<Head(items).region>> \o RegionsOf(Tail(items), seen \cup {Head(items).region})

\* Math.min(min, v) over the rows, from Number.POSITIVE_INFINITY
PositiveInfinity == [k |-> "inf", neg |-> FALSE]
NegativeInfinity == [k |-> "inf", neg |-> TRUE]

RECURSIVE RunningMin(_)
RunningMin(values) ==
    IF values = <<>> THEN PositiveInfinity
    ELSE LET before == RunningMin(SubSeq(values, 1, Len(values) - 1))
             v == values[Len(values)]
         IN  IF before.k = "inf" THEN Num(v) ELSE Num(Min(before.n, v))

\* Math.max(max, v) over the rows, from Number.NEGATIVE_INFINITY
RECURSIVE RunningMax(_)
RunningMax(values) ==
    IF values = <<>> THEN NegativeInfinity
    ELSE LET before == RunningMax(SubSeq(values, 1, Len(values) - 1))
             v == values[Len(values)]
         IN  IF before.k = "inf" THEN Num(v) ELSE Num(Max(before.n, v))

\* if (!Number.isFinite(v)) v = 0
FiniteOrZero(v) == IF v.k = "num" THEN v.n ELSE 0

\* The model of the items, the dataPoints being the same array
TimelineModelOf(items, regionColumns, isDateScale, temporalContext, combinedTemporalContext) ==
    LET n == Len(items)
        runMinYear == RunningMin([k \in 1..n |-> items[k].startYear])
        runMaxYear == RunningMax([k \in 1..n |-> items[k].endYear])
        bothFinite == runMinYear.k = "num" /\ runMaxYear.k = "num"
        minYear == IF bothFinite THEN runMinYear.n ELSE 0
        maxYear == IF bothFinite THEN runMaxYear.n ELSE 0
        minDuration == FiniteOrZero(RunningMin([k \in 1..n |-> items[k].duration]))
        maxDuration == FiniteOrZero(RunningMax([k \in 1..n |-> items[k].duration]))
    IN  [dataPoints |-> items, items |-> items,
         xValues |-> <<ToString(minYear), ToString(maxYear)>>,
         yValues |-> [k \in 1..n |-> items[k].civilization],
         groups |-> <<"All">>, regions |-> RegionsOf(items, {}),
         minValue |-> minDuration, maxValue |-> maxDuration,
         minYear |-> minYear, maxYear |-> maxYear,
         hasRegionRoleData |-> regionColumns # <<>>,
         timeScaleMode |-> IF isDateScale THEN "date" ELSE "numeric",
         timeTemporalLevel |-> temporalContext.level,
         timeHasYearContext |-> combinedTemporalContext.hasYearContext]

\* transform, once the role columns are resolved
TimelineTransformColumns(civilizationColumns, regionColumns, startColumns, endColumns) ==
    IF startColumns = <<>> \/ endColumns = <<>>
    THEN [dataPoints |-> <<>>, items |-> <<>>, xValues |-> <<>>, yValues |-> <<>>,
          groups |-> <<>>, regions |-> <<>>, maxValue |-> 0, minValue |-> 0,
          minYear |-> 0, maxYear |-> 0,
          hasRegionRoleData |-> regionColumns # <<>>,
          timeScaleMode |-> "numeric", timeTemporalLevel |-> "none",
          timeHasYearContext |-> TRUE]
    ELSE LET allColumns == civilizationColumns \o regionColumns \o startColumns
                           \o endColumns
             rowCount == MaxOf({Len(allColumns[c].values) : c \in 1..Len(allColumns)})
         IN  TimelineModelOf(
                 TimelineRows(<<>>, civilizationColumns, regionColumns,
                              startColumns, endColumns, 0, rowCount),
                 regionColumns,
                 \/ hasHierarchyHints(startColumns)
                 \/ hasHierarchyHints(endColumns)
                 \/ isDateLikeColumns(startColumns)
                 \/ isDateLikeColumns(endColumns),
                 inferTemporalLevel(startColumns),
                 inferTemporalLevel(startColumns \o endColumns))

TimelineTransformOf(view) ==
    TimelineTransformColumns(
        ColumnsAt(view, getRoleColumns(view, "civilization", FALSE, TRUE)),
        ColumnsAt(view, getRoleColumns(view, "region", FALSE, TRUE)),
        ColumnsAt(view, TimelineStartColumns(view)),
        ColumnsAt(view, TimelineEndColumns(view)))

(* The inputs: up to two value columns named "start" of a numeric type, each
   in the role startYear, endYear or another; no or one civilization column;
   every column of the same 1..MaxTimelineRows rows.  The years are not
   epoch-like, so the scale is numeric. *)
TimelineYears == {NullV, Big(0, 1990), Big(0, 2020)}
TimelineRoles == {{"startYear"}, {"endYear"}, {"tooltip"}}
TimelineLabels == {NullV, [k |-> "str", label |-> <<"R", "o", "m", "e">>],
                   [k |-> "str", label |-> <<" ">>]}

TimelineValueColumns(n) ==
    [name : {"start"}, dateTyped : {FALSE}, roles : TimelineRoles,
     values : [1..n -> TimelineYears]]

TimelineCategoryColumns(n) ==
    [name : {"civilization"}, dateTyped : {FALSE}, roles : {{"civilization"}},
     values : [1..n -> TimelineLabels]]

TimelineViewsOf(n) ==
    [values : SeqsUpTo(TimelineValueColumns(n), 2),
     categories : SeqsUpTo(TimelineCategoryColumns(n), 1)]

TimelineViews == UNION {TimelineViewsOf(n) : n \in 1..MaxTimelineRows}

NoTimelineModel == [items |-> <<>>]

TimelineInit ==
    /\ tlView \in TimelineViews
    /\ tlModel = NoTimelineModel
    /\ tlPc = "input"

TimelineIdle ==
    /\ tlView = [values |-> <<>>, categories |-> <<>>]
    /\ tlModel = NoTimelineModel
    /\ tlPc = "idle"

\* WorldHistoryTimelineTransformer.transform(categorical)
TimelineTransform ==
    /\ tlPc = "input"
    /\ tlModel' = TimelineTransformOf(tlView)
    /\ tlPc' = "done"
    /\ UNCHANGED tlView
    /\ UNCHANGED notTlVars

TimelineNext == TimelineTransform

-----------------------------------------------------------------------------
(* Bump and donut transformers; role resolution of the categorical
   transformers (part_001, DonutChartTransformer.ts, InlineLabelsLineTransformer.ts) *)

(* A categorical view is [categories, valueGroups]: the category columns
   [roles, values] and the value groups [groupValue, values, hasHighlights,
   highlights] the code makes of categorical.values (one group "All" for
   an ungrouped view).  Labels and group values are the strings the shared
   formatters made of the raw cells.  Column indices count from 0. *)

\* categories.forEach((cat, idx) => { if (role[name]) index = idx; }), from -1
RECURSIVE LastIndexOfRole(_, _, _)
LastIndexOfRole(categories, roleName, n) ==
    IF n = 0 THEN -1
    ELSE IF roleName \in categories[n].roles THEN n - 1
    ELSE LastIndexOfRole(categories, roleName, n - 1)

\* categories.forEach((cat, idx) => { if (role[name]) indices.push(idx); })
IndicesOfRole(categories, roleName) ==
    LET HasRole(idx) == roleName \in categories[idx + 1].roles
    IN  SelectSeq([n \in 1..Len(categories) |-> n - 1], HasRole)

BumpRoles(categories) ==
    [xAxisIndex |-> LastIndexOfRole(categories, "xAxis", Len(categories)),
     yAxisIndex |-> LastIndexOfRole(categories, "yAxis", Len(categories)),
     legendIndex |-> LastIndexOfRole(categories, "legend", Len(categories))]

DonutRoles(categories) ==
    [legendIndex |-> LastIndexOfRole(categories, "legend", Len(categories))]

\* xAxisIndices, xAxisPrimaryIndex, xAxisSecondaryIndex, legendIndex of the line chart
LineRoles(categories) ==
    LET xAxisIndices == IndicesOfRole(categories, "xAxis")
    IN  [xAxisIndices |-> xAxisIndices,
         xAxisPrimaryIndex |-> IF Len(xAxisIndices) > 0 THEN xAxisIndices[1] ELSE -1,
         xAxisSecondaryIndex |-> IF Len(xAxisIndices) > 1 THEN xAxisIndices[2] ELSE -1,
         legendIndex |-> LastIndexOfRole(categories, "legend", Len(categories))]

\* categories[index].values[i] for row i from 1, null when the role is unbound
CategoryCell(categories, index, i) ==
    IF index >= 0 THEN categories[index + 1].values[i] ELSE NullV

\* array.sort() of the labels and group values of the model
LabelOrder == <<"All", "G1", "G2", "Series", "a", "b", "c">>
SortedLabels(labels) ==
    LET IsLabel(s) == s \in labels
    IN  SelectSeq(LabelOrder, IsLabel)

\* A plausible slip: index: i, the row of the group
BumpPointRowIndexed(categories, roles, vg, i, pointIndex) ==
    LET rawXValue == CategoryCell(categories, roles.xAxisIndex, i)
        rawYValue == CategoryCell(categories, roles.yAxisIndex, i)
        value == BumpRowValue(ElementAt(vg.values, i),
                              HasHighlight(vg.hasHighlights, vg.highlights, i),
                              ElementAt(vg.highlights, i))
    IN  [xValue |-> rawXValue,
         yValue |-> IF roles.yAxisIndex >= 0 THEN rawYValue ELSE "Series",
         value |-> value.n, groupValue |-> vg.groupValue, index |-> i - 1]

\* bump: the body of the inner loop for row i of value group vg
BumpPoint(categories, roles, vg, i, pointIndex) ==
    LET rawXValue == CategoryCell(categories, roles.xAxisIndex, i)
        rawYValue == CategoryCell(categories, roles.yAxisIndex, i)
        value == BumpRowValue(ElementAt(vg.values, i),
                              HasHighlight(vg.hasHighlights, vg.highlights, i),
                              ElementAt(vg.highlights, i))
    IN  [xValue |-> rawXValue,
         yValue |-> IF roles.yAxisIndex >= 0 THEN rawYValue ELSE "Series",
         value |-> value.n, groupValue |-> vg.groupValue, index |-> pointIndex]

\* bump: for (const vg of valueGroups) for (let i ...) dataPoints.push(...)
RECURSIVE BumpPoints(_, _, _, _, _)
BumpPoints(dataPoints, categories, roles, valueGroups, i) ==
    IF valueGroups = <<>> THEN dataPoints
    ELSE IF i > Len(Head(valueGroups).values)
    THEN BumpPoints(dataPoints, categories, roles, Tail(valueGroups), 1)
    ELSE BumpPoints(Append(dataPoints,
                           BumpPoint(categories, roles, Head(valueGroups), i,
                                     Len(dataPoints))),
                    categories, roles, valueGroups, i + 1)

\* BumpChartTransformer.transform, without the ranks
BumpTransformOf(view) ==
    LET roles == BumpRoles(view.categories)
        dataPoints == BumpPoints(<<>>, view.categories, roles, view.valueGroups, 1)
        values == {dataPoints[n].value : n \in 1..Len(dataPoints)}
        positive == {v \in values : v > 0}
    IN  [chart |-> "bump", roles |-> roles, dataPoints |-> dataPoints,
         yValues |-> SortedLabels({dataPoints[n].yValue : n \in 1..Len(dataPoints)}),
         groups |-> SortedLabels({view.valueGroups[g].groupValue :
                                     g \in 1..Len(view.valueGroups)}),
         maxValue |-> MaxOf(values \cup {0}),
         minValue |-> IF positive = {} THEN 0 ELSE MinOf(positive),
         hasLegendRoleData |-> roles.legendIndex >= 0]

\* donut: the category of row i
DonutCategory(categories, roles, i) ==
    IF roles.legendIndex >= 0 THEN CategoryCell(categories, roles.legendIndex, i)
    ELSE "All"

\* donut: groupMap.get(category) ?? 0 after the loop over the rows of group vg
RECURSIVE DonutSegment(_, _, _, _, _)
DonutSegment(categories, roles, vg, category, i) ==
    IF i = 0 THEN 0
    ELSE DonutSegment(categories, roles, vg, category, i - 1)
         + (IF DonutCategory(categories, roles, i) = category
            THEN DonutRowValue(ElementAt(vg.values, i),
                               HasHighlight(vg.hasHighlights, vg.highlights, i),
                               ElementAt(vg.highlights, i)).n
            ELSE 0)

\* The value groups of a group value summed (a group value names one entry
\* of segmentsByGroup)
RECURSIVE DonutGroupSegment(_, _, _, _, _)
DonutGroupSegment(categories, roles, valueGroups, group, category) ==
    IF valueGroups = <<>> THEN 0
    ELSE (IF Head(valueGroups).groupValue = group
          THEN DonutSegment(categories, roles, Head(valueGroups), category,
                            Len(Head(valueGroups).values))
          ELSE 0)
         + DonutGroupSegment(categories, roles, Tail(valueGroups), group, category)

\* donut: categories.forEach((category, idx) => dataPoints.push({..., index: idx}))
DonutGroupPoints(categoryNames, segmentOf, group, before) ==
    [idx \in 1..Len(categoryNames) |->
        [xValue |-> categoryNames[idx], yValue |-> categoryNames[idx],
         value |-> segmentOf[group][categoryNames[idx]], groupValue |-> group,
         index |-> idx - 1]]

\* donut: groups.forEach(group => { ... })
RECURSIVE DonutPoints(_, _, _, _)
DonutPoints(dataPoints, categoryNames, segmentOf, groups) ==
    IF groups = <<>> THEN dataPoints
    ELSE DonutPoints(dataPoints \o DonutGroupPoints(categoryNames, segmentOf,
                                                    Head(groups), Len(dataPoints)),
                     categoryNames, segmentOf, Tail(groups))

\* donut: total += groupMap.get(category) ?? 0 over the categories
RECURSIVE DonutTotal(_, _)
DonutTotal(categoryNames, groupMap) ==
    IF categoryNames = <<>> THEN 0
    ELSE groupMap[Head(categoryNames)] + DonutTotal(Tail(categoryNames), groupMap)

\* DonutChartTransformer.transform
DonutTransformOf(view) ==
    LET roles == DonutRoles(view.categories)
        rows == IF view.valueGroups = <<>> THEN {}
                ELSE UNION {1..Len(view.valueGroups[g].values) :
                            g \in 1..Len(view.valueGroups)}
        categoryNames == SortedLabels({DonutCategory(view.categories, roles, i) :
                                          i \in rows})
        groups == SortedLabels({view.valueGroups[g].groupValue :
                                   g \in 1..Len(view.valueGroups)})
        groupSet == {groups[g] : g \in 1..Len(groups)}
        categorySet == {categoryNames[c] : c \in 1..Len(categoryNames)}
        segmentOf == [group \in groupSet |-> [category \in categorySet |->
                         DonutGroupSegment(view.categories, roles, view.valueGroups,
                                           group, category)]]
        values == {segmentOf[g][c] : g \in groupSet, c \in categorySet}
        positive == {v \in values : v > 0}
    IN  [chart |-> "donut", roles |-> roles,
         dataPoints |-> DonutPoints(<<>>, categoryNames, segmentOf, groups),
         xValues |-> categoryNames, yValues |-> categoryNames, groups |-> groups,
         maxValue |-> MaxOf(values \cup {0}),
         minValue |-> IF positive = {} THEN 0 ELSE MinOf(positive),
         segmentsByGroup |-> segmentOf,
         totalsByGroup |-> [group \in groupSet |->
                              DonutTotal(categoryNames, segmentOf[group])],
         hasLegendRoleData |-> roles.legendIndex >= 0]

(* The inputs: one to MaxCategoryColumns category columns of
   1..MaxCategoryRows rows, each with one or two of the role flags xAxis,
   yAxis and legend, and with the labels of its position; the ungrouped
   value group "All" or the two value groups "G1" and "G2", with or without
   a highlights array. *)
CategoryLabelAt(c, i) == <<"a", "b", "c">>[(((c - 1) + (i - 1) * c) % 3) + 1]
CategoryRoles == {{"xAxis"}, {"yAxis"}, {"legend"}, {"xAxis", "legend"}}

CategoricalViewsOf(n) ==
    [categories :
        UNION {{[c \in 1..m |-> [roles |-> roles[c],
                                 values |-> [i \in 1..n |-> CategoryLabelAt(c, i)]]] :
                roles \in [1..m -> CategoryRoles]} : m \in 1..MaxCategoryColumns},
     valueGroups :
        UNION {{[g \in 1..Len(names) |->
                    [groupValue |-> names[g], values |-> values[g],
                     hasHighlights |-> marked,
                     highlights |-> IF marked THEN [i \in 1..n |->
                                                       IF i = 1 THEN Num(5) ELSE NullV]
                                    ELSE <<>>]] :
                values \in [1..Len(names) -> [1..n -> {Num(1), Num(2)}]],
                marked \in BOOLEAN} :
               names \in {<<"All">>, <<"G1", "G2">>}}]

CategoricalViews == UNION {CategoricalViewsOf(n) : n \in 1..MaxCategoryRows}

NoCategoricalModel == [chart |-> "none"]

CategoricalInit ==
    /\ catView \in CategoricalViews
    /\ catModel = NoCategoricalModel
    /\ catPc = "input"

CategoricalIdle ==
    /\ catView = [categories |-> <<>>, valueGroups |-> <<>>]
    /\ catModel = NoCategoricalModel
    /\ catPc = "idle"

\* BumpChartTransformer.transform(categorical)
BumpTransform ==
    /\ catPc = "input"
    /\ catModel' = BumpTransformOf(catView)
    /\ catPc' = "done"
    /\ UNCHANGED catView
    /\ UNCHANGED notCatVars

\* DonutChartTransformer.transform(categorical)
DonutTransform ==
    /\ catPc = "input"
    /\ catModel' = DonutTransformOf(catView)
    /\ catPc' = "done"
    /\ UNCHANGED catView
    /\ UNCHANGED notCatVars

\* InlineLabelsLineTransformer.transform(categorical): the role indices
LineResolveRoles ==
    /\ catPc = "input"
    /\ catModel' = [chart |-> "line", roles |-> LineRoles(catView.categories)]
    /\ catPc' = "done"
    /\ UNCHANGED catView
    /\ UNCHANGED notCatVars

CategoricalNext ==
    \/ BumpTransform
    \/ DonutTransform
    \/ LineResolveRoles

-----------------------------------------------------------------------------
(* Repeated transform calls (HeatmapTransformer.ts, InlineLabelsLineTransformer.ts) *)

(* The transformers are static methods called once per update.  What a call
   builds its result in (the dataPoints array of the heatmap, the acc map of
   the line chart) is kept here across the calls, as the call left it, and
   every call begins by the statement that makes its own. *)

\* const dataPoints: DataPoint[] = []
FreshDataPoints(left) == <<>>

\* A plausible slip: the accumulator is a static field, never cleared
ReusedAccumulator(left) == left

\* const acc = new Map<AccKey, {...}>()
FreshAccumulator(left) == <<>>

\* The inner loop over the rows of one value group, from row i
RECURSIVE AccumulateRowsFrom(_, _, _, _)
AccumulateRowsFrom(acc, rows, vg, i) ==
    IF i > Len(vg.values) THEN acc
    ELSE AccumulateRowsFrom(AccumulateRow(acc, rows, vg, i), rows, vg, i + 1)

\* for (const vg of valueGroups) { ... }
RECURSIVE AccumulateGroups(_, _, _)
AccumulateGroups(acc, rows, valueGroups) ==
    IF valueGroups = <<>> THEN acc
    ELSE AccumulateGroups(AccumulateRowsFrom(acc, rows, Head(valueGroups), 1),
                          rows, Tail(valueGroups))

(* The inputs of a call: a heatmap view without matrix or with one row leaf
   under one of two groups, with one of two settings; a line view of two rows
   on one key. *)
CallHeatmapInputs ==
    [matrix : [columns : {<<<<"c1">>, <<"c2">>>>},
               rows : {<<leaf>> : leaf \in [group : {"", "G1"}, yParts : {<<"r1">>},
                                            cells : HeatmapCellRows]}]
              \cup {UndefinedV},
     settings : {NoSettings, [NoSettings EXCEPT !.showRowTotals = TRUE]}]

CallLineInputs ==
    [rows : {[i \in 1..2 |-> [x |-> <<"x", "1">>, series |-> <<"S">>]]},
     valueGroups : {<<[groupValue |-> AllLabel, values |-> values,
                       hasHighlights |-> FALSE, highlights |-> <<>>,
                       values2 |-> <<>>,
                       hasHighlights2 |-> FALSE, highlights2 |-> <<>>]>> :
                    values \in [1..2 -> {Num(1), Num(2)}]}]

CallsInit ==
    /\ callsLog = <<>>
    /\ callsPoints = <<>>
    /\ callsAcc = <<>>
    /\ callsPc = "ready"

CallsIdle ==
    /\ callsLog = <<>>
    /\ callsPoints = <<>>
    /\ callsAcc = <<>>
    /\ callsPc = "idle"

\* One more HeatmapTransformer.transform(dataView, settings)
CallHeatmap ==
    /\ callsPc = "ready"
    /\ Len(callsLog) < MaxCalls
    /\ \E input \in CallHeatmapInputs :
          LET built == transform([matrix |-> input.matrix], input.settings)
              dataPoints == FreshDataPoints(callsPoints) \o built.dataPoints
              model == [built EXCEPT !.dataPoints = dataPoints]
          IN  /\ callsPoints' = dataPoints
              /\ callsLog' = Append(callsLog, [chart |-> "heatmap", input |-> input,
                                               model |-> model])
    /\ UNCHANGED <<callsAcc, callsPc>>
    /\ UNCHANGED notCallsVars

\* One more InlineLabelsLineTransformer.transform(categorical)
CallLine ==
    /\ callsPc = "ready"
    /\ Len(callsLog) < MaxCalls
    /\ \E input \in CallLineInputs :
          LET acc == AccumulateGroups(FreshAccumulator(callsAcc), input.rows,
                                      input.valueGroups)
          IN  /\ callsAcc' = acc
              /\ callsLog' = Append(callsLog, [chart |-> "line", input |-> input,
                                               model |-> Materialize(acc)])
    /\ UNCHANGED <<callsPoints, callsPc>>
    /\ UNCHANGED notCallsVars

CallsNext ==
    \/ CallHeatmap
    \/ CallLine

-----------------------------------------------------------------------------
(* PDF export control (inline-labels-line/src/settings.ts, VisualExportControl) *)

(* exportControl holds the fields of the control and, of its button, disabled
   and title.  snapshotSource is "null", "noSvg" (a source whose svgElement
   is null) or "svg"; lastKnownStatus is "null" or a PrivilegeStatus;
   refreshPromise is TRUE while a capability check is pending.  exportTasks
   counts what is suspended at an await: the click handlers that wait for a
   capability check, those whose check has settled and that have not resumed
   yet, and the exportSvgSnapshotToPdf calls that have not settled. *)
PrivilegeStatus == {"Allowed", "NotDeclared", "NotSupported", "DisabledByAdmin"}

isExportAllowed(c) == c.lastKnownStatus = "Allowed"

\* this.hasData && this.snapshotSource && this.snapshotSource.svgElement
HasSnapshot(c) == c.hasData /\ c.snapshotSource = "svg"

\* A plausible slip: updateUi without the busy branch
updateUiNotBusy(c) ==
    IF c.destroyed THEN c
    ELSE IF c.lastKnownStatus = "null"
    THEN [c EXCEPT !.disabled = TRUE, !.title = "Checking export availability..."]
    ELSE IF ~isExportAllowed(c)
    THEN [c EXCEPT !.disabled = TRUE, !.title = c.lastKnownReason]
    ELSE IF ~HasSnapshot(c)
    THEN [c EXCEPT !.disabled = TRUE, !.title = "No chart data to export."]
    ELSE [c EXCEPT !.disabled = FALSE,
                   !.title = "Download the current chart as a PDF file."]

updateUi(c) ==
    IF c.destroyed THEN c
    ELSE IF c.busy
    THEN [c EXCEPT !.disabled = TRUE, !.title = "Preparing PDF export..."]
    ELSE IF c.lastKnownStatus = "null"
    THEN [c EXCEPT !.disabled = TRUE, !.title = "Checking export availability..."]
    ELSE IF ~isExportAllowed(c)
    THEN [c EXCEPT !.disabled = TRUE, !.title = c.lastKnownReason]
    ELSE IF ~HasSnapshot(c)
    THEN [c EXCEPT !.disabled = TRUE, !.title = "No chart data to export."]
    ELSE [c EXCEPT !.disabled = FALSE,
                   !.title = "Download the current chart as a PDF file."]

\* getExportDeniedReason(status); null (here "PDF export is unavailable.", what
\* updateUi shows for it) when the status is Allowed
ReasonOf(status) ==
    CASE status = "NotDeclared" -> "ExportContent privilege is not declared."
      [] status = "NotSupported" -> "PDF export is not supported."
      [] status = "DisabledByAdmin" -> "PDF export is disabled by the administrator."
      [] OTHER -> "PDF export is unavailable."

\* refreshCapability(force) up to its return: the control, and whether the
\* caller is handed a pending promise
refreshCapability(c, force) ==
    IF c.destroyed THEN c
    ELSE IF ~force /\ c.lastKnownStatus # "null" THEN updateUi(c)
    ELSE IF c.refreshPromise THEN c
    ELSE [c EXCEPT !.disabled = TRUE, !.title = "Checking export availability...",
                   !.refreshPromise = TRUE]

\* handleExportClick from the await of the capability check on: the control
\* after the two guards and, when they pass, busy = true and updateUi
ExportGuards(c) ==
    IF ~isExportAllowed(c) THEN updateUi(c)
    ELSE IF ~HasSnapshot(c) THEN updateUi(c)
    ELSE updateUi([c EXCEPT !.busy = TRUE])

StartsExport(c) == isExportAllowed(c) /\ HasSnapshot(c)

NewExportControl ==
    [snapshotSource |-> "null", hasData |-> FALSE, busy |-> FALSE,
     destroyed |-> FALSE, lastKnownStatus |-> "null",
     lastKnownReason |-> "PDF export is unavailable.", refreshPromise |-> FALSE,
     disabled |-> TRUE, title |-> "Checking export availability..."]

NoExportTasks == [waiting |-> 0, resumed |-> 0, exports |-> 0]

ExportInit ==
    /\ exportControl = NewExportControl
    /\ exportTasks = NoExportTasks
    /\ exportPc = "created"

ExportIdle ==
    /\ exportControl = NewExportControl
    /\ exportTasks = NoExportTasks
    /\ exportPc = "idle"

\* setSnapshotSource(source)
SetSnapshotSource ==
    /\ exportPc = "created"
    /\ \E source \in {"noSvg", "svg"} :
          exportControl' = updateUi([exportControl EXCEPT !.snapshotSource = source])
    /\ UNCHANGED <<exportTasks, exportPc>>
    /\ UNCHANGED notExportVars

\* setHasData(hasData)
SetHasData ==
    /\ exportPc = "created"
    /\ \E hasData \in BOOLEAN :
          exportControl' = updateUi([exportControl EXCEPT !.hasData = hasData])
    /\ UNCHANGED <<exportTasks, exportPc>>
    /\ UNCHANGED notExportVars

\* refreshCapability(force), called by the visual
RefreshCapability ==
    /\ exportPc = "created"
    /\ \E force \in BOOLEAN :
          exportControl' = refreshCapability(exportControl, force)
    /\ UNCHANGED <<exportTasks, exportPc>>
    /\ UNCHANGED notExportVars

\* The promise of getExportCapability settles: then or catch, and finally.
\* The click handlers that awaited it are resumed after it
CapabilitySettles ==
    /\ exportPc = "created"
    /\ exportControl.refreshPromise
    /\ \E outcome \in PrivilegeStatus \cup {"rejected"} :
          LET status == IF outcome = "rejected" THEN "NotSupported" ELSE outcome
              reason == IF outcome = "rejected" THEN "error.message"
                        ELSE ReasonOf(outcome)
          IN  exportControl' = updateUi([exportControl EXCEPT
                                            !.lastKnownStatus = status,
                                            !.lastKnownReason = reason,
                                            !.refreshPromise = FALSE])
    /\ exportTasks' = [exportTasks EXCEPT !.waiting = 0,
                                          !.resumed = @ + exportTasks.waiting]
    /\ UNCHANGED exportPc
    /\ UNCHANGED notExportVars

\* handleExportClick up to its first await
HandleExportClick ==
    IF exportControl.destroyed \/ exportControl.busy
    THEN UNCHANGED <<exportControl, exportTasks>>
    ELSE IF exportControl.lastKnownStatus = "null"
    THEN /\ exportControl' = refreshCapability(exportControl, TRUE)
         /\ exportTasks' = [exportTasks EXCEPT !.waiting = @ + 1]
    ELSE /\ exportControl' = ExportGuards(exportControl)
         /\ exportTasks' = IF StartsExport(exportControl)
                           THEN [exportTasks EXCEPT !.exports = @ + 1]
                           ELSE exportTasks

\* The user clicks the button: a disabled button dispatches no click event,
\* and destroy has removed the listener
ClickButton ==
    /\ exportPc = "created"
    /\ ~exportControl.disabled
    /\ ~exportControl.destroyed
    /\ HandleExportClick
    /\ UNCHANGED exportPc
    /\ UNCHANGED notExportVars

\* The messages of the errors exportSvgSnapshotToPdf throws: the capability
\* is not allowed, the SVG surface is missing, the download was not completed
ExportFailures ==
    {"PDF export is unavailable in this environment.",
     "Cannot export because the SVG surface is unavailable.",
     "Power BI did not complete the PDF download request."}

\* exportSvgSnapshotToPdf settles: the title of the outcome, then finally
ExportSettlesAs(title) ==
    /\ exportPc = "created"
    /\ exportTasks.exports > 0
    /\ exportControl' = updateUi([exportControl EXCEPT !.title = title,
                                                       !.busy = FALSE])
    /\ exportTasks' = [exportTasks EXCEPT !.exports = @ - 1]
    /\ UNCHANGED exportPc
    /\ UNCHANGED notExportVars

ExportSettles ==
    \E title \in {"PDF downloaded."} \cup ExportFailures : ExportSettlesAs(title)

\* destroy()
DestroyControl ==
    /\ exportPc = "created"
    /\ exportControl' = [exportControl EXCEPT !.destroyed = TRUE]
    /\ UNCHANGED <<exportTasks, exportPc>>
    /\ UNCHANGED notExportVars

ExportNext ==
    \/ SetSnapshotSource
    \/ SetHasData
    \/ RefreshCapability
    \/ CapabilitySettles
    \/ ClickButton
    \/ ExportSettles
    \/ DestroyControl

\* The click listener runs handleExportClick for a click event dispatched to
\* the button, be the button disabled or not (a script may dispatch one);
\* destroy has removed the listener
InvokeHandler ==
    /\ exportPc = "created"
    /\ exportTasks.resumed = 0
    /\ exportTasks.waiting < MaxPendingHandlers
    /\ ~exportControl.destroyed
    /\ HandleExportClick
    /\ UNCHANGED exportPc
    /\ UNCHANGED notExportVars

\* A handler resumes after its await of the capability check: the two guards,
\* then busy = true, updateUi and the call of exportSvgSnapshotToPdf
HandlerResumes ==
    /\ exportPc = "created"
    /\ exportTasks.resumed > 0
    /\ exportControl' = ExportGuards(exportControl)
    /\ exportTasks' = [exportTasks EXCEPT
                          !.resumed = @ - 1,
                          !.exports = IF StartsExport(exportControl) THEN @ + 1 ELSE @]
    /\ UNCHANGED exportPc
    /\ UNCHANGED notExportVars

\* The continuations of the handlers are microtasks: they run before any
\* other call or completion
ExportStep ==
    /\ exportTasks.resumed = 0
    /\ ExportNext

HandlersNext ==
    \/ ExportStep
    \/ InvokeHandler
    \/ HandlerResumes

-----------------------------------------------------------------------------
(* Inline-labels line: date axis detection (InlineLabelsLineTransformer.ts) *)

(* A category column is [typed, values]: whether the host types it dateTime
   or temporal, and its values as runs [cell, count] of equal cells, so that
   a column of some hundred rows stays small.  A cell is null, a small
   number Num(n), or [k |-> "ms", days |-> d]: the number d * 86,400,000, a
   timestamp in milliseconds at midnight of day d after the epoch. *)
\* d * 86,400,000 = d * 86 * 10^6 + d * 400,000 as a number of two limbs
DayMs(d) == Big(d * 86 + (d * 4) \div 10, ((d * 4) % 10) * 100000)

MIN_MS_TIMESTAMP_FOR_DATE_AXIS == Big(100000, 0)    \* 1000 * 1000 * 1000 * 100

sampleLimit == 500
minRangeDays == 28                          \* minRangeMs = 28 * 24 * 60 * 60 * 1000
minRangeMs == DayMs(minRangeDays)
minParseRatioPercent == 85                  \* minParseRatio = 0.85

\* tryParseDateMsHeuristic: TRUE when the result is not null (the result is
\* then the cell itself)
ParsesAsDateMs(value) ==
    CASE value.k = "null" -> FALSE
      [] value.k = "ms" ->
           ~(BigLeq(DayMs(value.days), MIN_MS_TIMESTAMP_FOR_DATE_AXIS)
             /\ DayMs(value.days) # MIN_MS_TIMESTAMP_FOR_DATE_AXIS)
      [] OTHER -> FALSE                     \* a number below the threshold

\* values.length
RECURSIVE RunsLength(_)
RunsLength(runs) ==
    IF runs = <<>> THEN 0 ELSE Head(runs).count + RunsLength(Tail(runs))

\* The runs of the first n values
RECURSIVE FirstValues(_, _)
FirstValues(runs, n) ==
    IF runs = <<>> \/ n <= 0 THEN <<>>
    ELSE <<[cell |-> Head(runs).cell, count |-> Min(n, Head(runs).count)]>>
         \o FirstValues(Tail(runs), n - Head(runs).count)

\* The loop over the sample: parsed, and the days of the parsed values
RECURSIVE ParsedCount(_)
ParsedCount(runs) ==
    IF runs = <<>> THEN 0
    ELSE (IF ParsesAsDateMs(Head(runs).cell) THEN Head(runs).count ELSE 0)
         + ParsedCount(Tail(runs))

ParsedDays(runs) ==
    {runs[r].cell.days : r \in {q \in 1..Len(runs) : ParsesAsDateMs(runs[q].cell)}}

\* What the loop body computes for the column at idx: whether it is a
\* candidate, and parsed, n and the range in days that make its score
DateCandidate(column) ==
    LET n == Min(RunsLength(column.values), sampleLimit)
        sample == FirstValues(column.values, n)
        parsed == ParsedCount(sample)
        days == ParsedDays(sample)
        rangeDays == IF days = {} THEN -1 ELSE MaxOf(days) - MinOf(days)
    IN  [accepted |-> /\ n > 1
                      /\ parsed * 100 >= minParseRatioPercent * n
                      /\ rangeDays >= 0
                      /\ BigLeq(minRangeMs, DayMs(rangeDays)),
         parsed |-> parsed, n |-> n, rangeDays |-> rangeDays]

\* score = ratio * 10 + Math.min(10, range / minRangeMs), times 28 * n
ScoreTimes28N(c) ==
    280 * c.parsed + c.n * Min(10 * minRangeDays, c.rangeDays)

\* score(a) > score(b)
ScoreGreater(a, b) == ScoreTimes28N(a) * b.n > ScoreTimes28N(b) * a.n

\* for (const idx of xAxisIndices) { ... if (score > bestScore) ... }: bestIdx
RECURSIVE BestIndex(_, _, _, _)
BestIndex(categories, xAxisIndices, bestIdx, k) ==
    IF k > Len(xAxisIndices) THEN bestIdx
    ELSE LET idx == xAxisIndices[k]
             c == DateCandidate(categories[idx + 1])
             better == /\ c.accepted
                       /\ \/ bestIdx < 0
                          \/ ScoreGreater(c, DateCandidate(categories[bestIdx + 1]))
         IN  BestIndex(categories, xAxisIndices, IF better THEN idx ELSE bestIdx, k + 1)

detectDateAxisIndex(categories, xAxisIndices) ==
    IF xAxisIndices = <<>> THEN -1
    ELSE LET IsTyped(idx) == categories[idx + 1].typed
             typed == SelectSeq(xAxisIndices, IsTyped)
             bestIdx == BestIndex(categories, xAxisIndices, -1, 1)
         IN  IF bestIdx >= 0 THEN bestIdx
             ELSE IF Len(typed) > 0 THEN typed[1]
             ELSE -1

(* The inputs: one to MaxDateColumns columns in the xAxis role, each typed by
   the host or not, each of one of these shapes: quarter numbers; two
   timestamps 27, 28, 56 or 300 days apart; one timestamp; 500 values of
   which 425 or 424 are timestamps; 600 values whose first 500 hold 425 or
   400 timestamps; two numbers below the timestamp threshold. *)
Quarter == Num(3)
DayCell(d) == [k |-> "ms", days |-> d]
Run(cell, count) == [cell |-> cell, count |-> count]

DateColumnShapes ==
    {<<Run(Quarter, 4)>>,
     <<Run(DayCell(20000), 1)>>,
     <<Run(DayCell(1000), 1), Run(DayCell(1100), 1)>>,
     <<Run(DayCell(20000), 424), Run(DayCell(20300), 1), Run(Quarter, 75)>>,
     <<Run(DayCell(20000), 423), Run(DayCell(20300), 1), Run(Quarter, 76)>>,
     <<Run(DayCell(20000), 424), Run(DayCell(20300), 1), Run(Quarter, 175)>>,
     <<Run(Quarter, 100), Run(DayCell(20000), 424), Run(DayCell(20300), 1),
       Run(Quarter, 75)>>}
    \cup {<<Run(DayCell(20000), 1), Run(DayCell(20000 + span), 1)>> :
          span \in {27, 28, 56, 300}}

DateColumns == [typed : BOOLEAN, values : DateColumnShapes]

NoDateAxis == [index |-> -2]

DateAxisInit ==
    /\ dateCategories \in UNION {[1..m -> DateColumns] : m \in 1..MaxDateColumns}
    /\ dateAxis = NoDateAxis
    /\ datePc = "input"

DateAxisIdle ==
    /\ dateCategories = <<>>
    /\ dateAxis = NoDateAxis
    /\ datePc = "idle"

\* detectDateAxisIndex(categorical, xAxisIndices), every column in the xAxis role
DetectDateAxis ==
    /\ datePc = "input"
    /\ dateAxis' = [index |-> detectDateAxisIndex(dateCategories,
                                  [k \in 1..Len(dateCategories) |-> k - 1])]
    /\ datePc' = "done"
    /\ UNCHANGED dateCategories
    /\ UNCHANGED notDateVars

DateAxisNext == DetectDateAxis

-----------------------------------------------------------------------------
(* Heatmap: traversal of the matrix trees, order of the X leaves and
   attribution of the cells (HeatmapTransformer.ts) *)

(* A node of a row or column tree is [level, value, label, isSubtotal,
   children, values]: level is -1 where the host leaves it undefined (the
   root), value is levelValues[0].value, a number Num(n) or a string
   [k |-> "string", chars |-> ...], label is the label the shared formatter
   makes of it, and values (of a row leaf) maps a slot index to the cell
   [value, highlight, valueSourceIndex]. *)
TreeNode(level, value, label, isSubtotal, children) ==
    [level |-> level, value |-> value, label |-> label, isSubtotal |-> isSubtotal,
     children |-> children, values |-> <<>>]

nodeIsLeaf(node) == node.children = <<>>
isSubtotalNode(node) == node.isSubtotal

\* traverseMatrix with the visitor of transformMatrix: the paths of the
\* visited leaves that have a level, in the order of the visits
RECURSIVE traverseMatrix(_, _)
traverseMatrix(node, path) ==
    IF isSubtotalNode(node) THEN <<>>
    ELSE LET nextPath == IF node.level # -1 THEN Append(path, node) ELSE path
             visited == IF nodeIsLeaf(node) /\ node.level # -1 THEN <<nextPath>> ELSE <<>>
             Below[k \in 0..Len(node.children)] ==
                 IF k = 0 THEN <<>>
                 ELSE Below[k - 1] \o traverseMatrix(node.children[k], nextPath)
         IN  visited \o Below[Len(node.children)]

\* A plausible slip: the subtotal nodes are visited like the others
RECURSIVE traverseMatrixAll(_, _)
traverseMatrixAll(node, path) ==
    LET nextPath == IF node.level # -1 THEN Append(path, node) ELSE path
        visited == IF nodeIsLeaf(node) /\ node.level # -1 THEN <<nextPath>> ELSE <<>>
        Below[k \in 0..Len(node.children)] ==
            IF k = 0 THEN <<>>
            ELSE Below[k - 1] \o traverseMatrixAll(node.children[k], nextPath)
    IN  visited \o Below[Len(node.children)]

\* normalizeSortValue(raw, label) of a node: a finite number is its own key
NodeSortValue(node) ==
    IF node.value.k = "num" THEN node.value
    ELSE normalizeSortValue(node.value.chars, node.value.chars)

\* xLevelSortDirections: the sort of the level's first source of the xAxis
\* role, or of its first source
SortDirectionOfLevel(level) ==
    LET withRole == {s \in 1..Len(level.sources) : level.sources[s].xAxis}
    IN  IF withRole # {} THEN level.sources[MinOf(withRole)].sort
        ELSE IF level.sources # <<>> THEN level.sources[1].sort
        ELSE "undefined"
xLevelSortDirections(levels) ==
    [i \in 1..Len(levels) |-> SortDirectionOfLevel(levels[i])]

\* The leaf of a visited path: xParts, sortParts and the key
XLeaf(path, colLeafIndex) ==
    LET xParts == [p \in 1..Len(path) |-> path[p].label]
    IN  [key |-> LeafKey(xParts, "col", colLeafIndex),
         path |-> xParts,
         sort |-> [p \in 1..Len(path) |-> NodeSortValue(path[p])],
         originalIndex |-> colLeafIndex]

XLeaves(columns) ==
    LET paths == traverseMatrix(columns.root, <<>>)
    IN  [i \in 1..Len(paths) |-> XLeaf(paths[i], i - 1)]

\* String(av).localeCompare(String(bv)) for the strings of the model: lower
\* case letters, digits, space and "-", compared character by character,
\* punctuation before digits before letters
CollationOrder == <<" ", "-">> \o Digits \o LowerLetters
CharRank(c) == CHOOSE i \in 1..Len(CollationOrder) : CollationOrder[i] = c
RECURSIVE localeCompare(_, _)
localeCompare(a, b) ==
    IF a = <<>> /\ b = <<>> THEN 0
    ELSE IF a = <<>> THEN -1
    ELSE IF b = <<>> THEN 1
    ELSE IF CharRank(Head(a)) # CharRank(Head(b))
    THEN (IF CharRank(Head(a)) < CharRank(Head(b)) THEN -1 ELSE 1)
    ELSE localeCompare(Tail(a), Tail(b))

\* String(v) of a sort value
SortValueString(v) == IF v.k = "num" THEN DecimalChars(v.n) ELSE v.s

\* The comparator of leaves.sort, from level i (counted from 1) on
RECURSIVE CompareLeavesFrom(_, _, _, _)
CompareLeavesFrom(a, b, directions, i) ==
    IF i > Max(Len(a.sort), Len(b.sort)) THEN a.originalIndex - b.originalIndex
    ELSE IF i > Len(a.sort) /\ i > Len(b.sort)
    THEN CompareLeavesFrom(a, b, directions, i + 1)
    ELSE IF i > Len(a.sort) THEN -1
    ELSE IF i > Len(b.sort) THEN 1
    ELSE LET av == a.sort[i]
             bv == b.sort[i]
             cmp == IF av.k = "num" /\ bv.k = "num" THEN av.n - bv.n
                    ELSE localeCompare(SortValueString(av), SortValueString(bv))
             dir == IF i <= Len(directions) THEN directions[i] ELSE "undefined"
             signed == IF dir = "Descending" THEN 0 - cmp ELSE cmp
         IN  IF signed # 0 THEN signed
             ELSE CompareLeavesFrom(a, b, directions, i + 1)

\* Array.prototype.sort with that comparator: a stable insertion
RECURSIVE InsertLeaf(_, _, _)
InsertLeaf(sorted, leaf, directions) ==
    IF sorted = <<>> THEN <<leaf>>
    ELSE IF CompareLeavesFrom(leaf, Head(sorted), directions, 1) < 0
    THEN <<leaf>> \o sorted
    ELSE <<Head(sorted)>> \o InsertLeaf(Tail(sorted), leaf, directions)

RECURSIVE SortLeaves(_, _)
SortLeaves(leaves, directions) ==
    IF leaves = <<>> THEN <<>>
    ELSE InsertLeaf(SortLeaves(SubSeq(leaves, 1, Len(leaves) - 1), directions),
                    leaves[Len(leaves)], directions)

\* A plausible slip: the leaves are re-sorted only if every key of every
\* level is a number
anySortableNumberAllLevels(leaves) ==
    /\ Len(leaves) > 0
    /\ \A l \in 1..Len(leaves) :
           \A i \in 1..Len(leaves[l].sort) : leaves[l].sort[i].k = "num"

\* leaves.length > 0 && leaves.every(l => typeof l.sort[l.sort.length - 1] === "number")
anySortableNumber(leaves) ==
    /\ Len(leaves) > 0
    /\ \A l \in 1..Len(leaves) :
           /\ Len(leaves[l].sort) > 0
           /\ leaves[l].sort[Len(leaves[l].sort)].k = "num"

\* The X leaves in the order of xAxis.leafKeys
OrderedXLeaves(columns) ==
    LET leaves == XLeaves(columns)
    IN  IF anySortableNumber(leaves)
        THEN SortLeaves(leaves, xLevelSortDirections(columns.levels))
        ELSE leaves

\* The row leaves: [key, node], the key being the labels of the path
YLeaves(rows) ==
    LET paths == traverseMatrix(rows.root, <<>>)
    IN  [i \in 1..Len(paths) |->
            [key |-> LeafKey([p \in 1..Len(paths[i]) |-> paths[i][p].label], "row", i - 1),
             node |-> paths[i][Len(paths[i])]]]

\* The loop over the value keys of a row leaf, from slot idx (counted from
\* 0) on; columnLeafKeyByIndex holds the keys of the X leaves as traversed
RECURSIVE SlotPointsFrom(_, _, _, _)
SlotPointsFrom(rowLeaf, columnLeafKeyByIndex, measureCount, idx) ==
    IF idx >= Len(rowLeaf.node.values) THEN <<>>
    ELSE LET nodeValue == rowLeaf.node.values[idx + 1]
             valueSourceIndex == IF nodeValue.valueSourceIndex = UndefinedV THEN 0
                                 ELSE nodeValue.valueSourceIndex.n
             colIndex == idx \div measureCount
             rest == SlotPointsFrom(rowLeaf, columnLeafKeyByIndex, measureCount, idx + 1)
         IN  IF valueSourceIndex # 0 THEN rest
             ELSE IF colIndex >= Len(columnLeafKeyByIndex) THEN rest    \* if (!colKey)
             ELSE <<[xValue |-> columnLeafKeyByIndex[colIndex + 1],
                     yValue |-> rowLeaf.key,
                     value |-> HeatmapCellValue(nodeValue.value, nodeValue.highlight).n,
                     groupValue |-> "All"]>> \o rest

\* The X leaves and the data points of a matrix whose rows have no group
MatrixLeavesAndPoints(matrix) ==
    LET measureCount == Max(1, matrix.valueSources)
        ordered == OrderedXLeaves(matrix.columns)
        traversed == XLeaves(matrix.columns)
        columnLeafKeyByIndex == [i \in 1..Len(traversed) |-> traversed[i].key]
        rowLeaves == YLeaves(matrix.rows)
        points == Flatten([r \in 1..Len(rowLeaves) |->
                      SlotPointsFrom(rowLeaves[r], columnLeafKeyByIndex, measureCount, 0)])
    IN  [xLeafKeys |-> [i \in 1..Len(ordered) |-> ordered[i].key],
         xLeafPaths |-> [i \in 1..Len(ordered) |-> ordered[i].path],
         xAxis |-> buildAxisHierarchyFromLeafPaths(
                       [i \in 1..Len(ordered) |-> ordered[i].key],
                       [i \in 1..Len(ordered) |-> ordered[i].path]),
         yLeafKeys |-> [r \in 1..Len(rowLeaves) |-> rowLeaves[r].key],
         dataPoints |-> [n \in 1..Len(points) |->
                            [xValue |-> points[n].xValue, yValue |-> points[n].yValue,
                             value |-> points[n].value,
                             groupValue |-> points[n].groupValue, index |-> n - 1]]]

(* The inputs.  The column tree has one to MaxColumnNodes nodes below the
   root, each a leaf, a subtotal leaf or a parent of leaves, with distinct
   leaf keys; two of the parents have different labels of one month; its two levels have a source of the xAxis role with or without
   a declared direction, or a first source of another role.  The row tree
   has a leaf, a subtotal and a leaf.  The host keys the cells of a row leaf
   by the position of the column leaf among all the leaves of the column
   tree, subtotals included, times the number of measures, plus the index
   of the measure. *)
StringValue(chars) == [k |-> "string", chars |-> chars]
ColumnLeaf(level, value, label) == TreeNode(level, value, label, FALSE, <<>>)
SubtotalLeaf(level) == TreeNode(level, StringValue(<<>>), "", TRUE, <<>>)

ColumnNodes ==
    {ColumnLeaf(0, Num(1), "1"),
     ColumnLeaf(0, Num(2), "2"),
     ColumnLeaf(0, StringValue(<<"J", "a", "n", " ", "2", "0", "2", "4">>), "Jan 2024"),
     ColumnLeaf(0, StringValue(<<"b">>), "b"),
     SubtotalLeaf(0),
     TreeNode(0, Num(1), "1", FALSE,
              <<ColumnLeaf(1, Num(2), "2"), ColumnLeaf(1, Num(1), "1")>>),
     TreeNode(0, StringValue(<<"a">>), "a", FALSE,
              <<ColumnLeaf(1, Num(2), "2"), ColumnLeaf(1, Num(1), "1")>>),
     TreeNode(0, StringValue(<<"c">>), "c", FALSE,
              <<ColumnLeaf(1, Num(1), "1"), SubtotalLeaf(1), ColumnLeaf(1, Num(2), "2")>>),
     TreeNode(0, Num(2), "2", FALSE, <<ColumnLeaf(1, StringValue(<<"b">>), "b")>>),
     TreeNode(0, StringValue(<<"J", "a", "n", " ", "2", "0", "2", "4">>), "Jan 2024", FALSE,
              <<ColumnLeaf(1, Num(1), "1"), ColumnLeaf(1, Num(3), "3")>>),
     TreeNode(0, StringValue(<<"J", "a", "n", "-", "2", "0", "2", "4">>), "Jan-2024", FALSE,
              <<ColumnLeaf(1, Num(2), "2")>>)}

LevelSource(xAxis, sort) == [xAxis |-> xAxis, sort |-> sort]
ColumnLevels0 ==
    {[sources |-> <<LevelSource(TRUE, "undefined")>>],
     [sources |-> <<LevelSource(TRUE, "Descending")>>],
     [sources |-> <<LevelSource(FALSE, "Descending"), LevelSource(TRUE, "Ascending")>>]}
ColumnLevels1 ==
    {[sources |-> <<LevelSource(TRUE, "undefined")>>],
     [sources |-> <<LevelSource(FALSE, "Descending")>>]}

Root(children) == TreeNode(-1, StringValue(<<>>), "", FALSE, children)

AllKeysDistinct(leaves) ==
    \A i, j \in 1..Len(leaves) : leaves[i].key = leaves[j].key => i = j

ColumnTrees ==
    {[levels |-> <<l0, l1>>, root |-> Root(children)] :
        l0 \in ColumnLevels0, l1 \in ColumnLevels1,
        children \in {c \in UNION {[1..n -> ColumnNodes] : n \in 1..MaxColumnNodes} :
                         AllKeysDistinct(XLeaves([root |-> Root(c)]))}}

\* The cell of row node rowOrdinal, column leaf position and measure: the
\* first cell of a row carries a highlight
HostCell(rowOrdinal, position, measure) ==
    [value |-> Num(100 * rowOrdinal + 10 * measure + position + 1),
     highlight |-> IF position = 0 /\ measure = 0
                   THEN Num(100 * rowOrdinal + 50) ELSE UndefinedV,
     valueSourceIndex |-> IF measure = 0 THEN UndefinedV ELSE Num(measure)]

HostValues(rowOrdinal, columns, measures) ==
    [slot \in 1..(Len(traverseMatrixAll(columns.root, <<>>)) * measures) |->
        HostCell(rowOrdinal, (slot - 1) \div measures, (slot - 1) % measures)]

RowNode(rowOrdinal, label, isSubtotal, columns, measures) ==
    [level |-> 0, value |-> StringValue(<<>>), label |-> label, isSubtotal |-> isSubtotal,
     children |-> <<>>, values |-> HostValues(rowOrdinal, columns, measures)]

RowTree(columns, measures) ==
    [root |-> Root(<<RowNode(1, "r1", FALSE, columns, measures),
                     RowNode(2, "", TRUE, columns, measures),
                     RowNode(3, "r2", FALSE, columns, measures)>>)]

TreeMatrices ==
    {[columns |-> columns, rows |-> RowTree(columns, measures), valueSources |-> measures] :
        columns \in ColumnTrees, measures \in 1..2}

NoTreeModel == [xLeafKeys |-> <<>>]

TreeInit ==
    /\ treeMatrix \in TreeMatrices
    /\ treeModel = NoTreeModel
    /\ treePc = "input"

TreeIdle ==
    /\ treeMatrix = <<>>
    /\ treeModel = NoTreeModel
    /\ treePc = "idle"

\* transformMatrix up to the data points, before the totals are spliced in
TreeTransform ==
    /\ treePc = "input"
    /\ treeModel' = MatrixLeavesAndPoints(treeMatrix)
    /\ treePc' = "done"
    /\ UNCHANGED treeMatrix
    /\ UNCHANGED notTreeVars

TreeNext == TreeTransform

-----------------------------------------------------------------------------
(* Heatmap: the row leaves and their groups (HeatmapTransformer.ts) *)

(* A node of the row tree is a tree node with roles, the roles of the source
   of its one level value (a subset of {"yAxis", "group"}), and, for a leaf,
   cells, the cells of the node by column index. *)
RoleNode(level, roles, label, isSubtotal, children, cells) ==
    [level |-> level, roles |-> roles, label |-> label, isSubtotal |-> isSubtotal,
     children |-> children, cells |-> cells]

\* getNodeRoleParts of a node with one level value
yAxisPartsOf(node) == IF "yAxis" \in node.roles THEN <<node.label>> ELSE <<>>
groupPartsOf(node) == IF "group" \in node.roles THEN <<node.label>> ELSE <<>>

\* path.forEach: groupValue, null (UndefinedV here) until the first node with
\* group parts
RECURSIVE PathGroupValue(_)
PathGroupValue(path) ==
    IF path = <<>> THEN UndefinedV
    ELSE IF groupPartsOf(Head(path)) # <<>> THEN [k |-> "str", s |-> Join(groupPartsOf(Head(path)), " * ")]
    ELSE PathGroupValue(Tail(path))

\* A plausible slip: a node of the Group role alone is labelled like a node
\* without roles
PathYPartsWithGroupLabels(path) ==
    LET Part(p) == IF yAxisPartsOf(p) # <<>> THEN <<Join(yAxisPartsOf(p), " * ")>>
                   ELSE IF p.label = "" THEN <<>>
                   ELSE <<p.label>>
    IN  Flatten([p \in 1..Len(path) |-> Part(path[p])])

\* path.forEach: yParts
PathYParts(path) ==
    LET Part(p) == IF groupPartsOf(p) # <<>> /\ yAxisPartsOf(p) = <<>> THEN <<>>
                   ELSE IF yAxisPartsOf(p) # <<>> THEN <<Join(yAxisPartsOf(p), " * ")>>
                   ELSE IF p.label = "" THEN <<>>           \* if (!fallback) return
                   ELSE <<p.label>>
    IN  Flatten([p \in 1..Len(path) |-> Part(path[p])])

\* The visitor of the row traversal: the row leaf of a visited path, with
\* the group value ("" for null) the buckets are keyed by
GroupedRowLeaf(path) ==
    LET groupValue == PathGroupValue(path)
    IN  [group |-> IF groupValue = UndefinedV THEN "" ELSE groupValue.s,
         yParts |-> PathYParts(path),
         cells |-> path[Len(path)].cells]

GroupedRowLeaves(rows) ==
    LET paths == traverseMatrix(rows.root, <<>>)
    IN  [r \in 1..Len(paths) |-> GroupedRowLeaf(paths[r])]

(* The inputs: up to MaxRowNodes nodes below the root: leaves of the yAxis
   role or of no role, a subtotal, and nodes of the Group role (with a value,
   blank, above another Group node, also of the yAxis role, or a leaf
   itself) above a leaf; no to two column leaves; the settings of the totals. *)
RowCells(n) ==
    <<HeatmapCell(Num(n), UndefinedV), HeatmapCell(Num(n + 1), Num(5))>>
RowLeafNode(level, roles, label, n) == RoleNode(level, roles, label, FALSE, <<>>, RowCells(n))

RowNodes ==
    {RowLeafNode(0, {"yAxis"}, "r1", 1),
     RowLeafNode(0, {}, "r2", 2),
     RowLeafNode(0, {}, "", 3),
     RoleNode(0, {}, "", TRUE, <<>>, RowCells(9)),
     RoleNode(0, {"group"}, "G1", FALSE, <<RowLeafNode(1, {"yAxis"}, "r1", 4)>>, <<>>),
     RoleNode(0, {"group"}, " ", FALSE, <<RowLeafNode(1, {"yAxis"}, "r1", 5)>>, <<>>),
     RoleNode(0, {"group"}, "G2", FALSE,
              <<RoleNode(1, {"group"}, "G1", FALSE,
                         <<RowLeafNode(2, {"yAxis"}, "r2", 6)>>, <<>>)>>, <<>>),
     RoleNode(0, {"group", "yAxis"}, "G1", FALSE,
              <<RowLeafNode(1, {"yAxis"}, "r2", 7)>>, <<>>),
     RowLeafNode(0, {"group"}, "G2", 8)}

RowTrees ==
    {[root |-> RoleNode(-1, {}, "", FALSE, children, <<>>)] :
        children \in SeqsUpTo(RowNodes, MaxRowNodes)}

NoRowsModel == [groups |-> <<>>]

\* No column leaf, the column leaves of one level, or two leaves of two levels
RowsColumns == HeatmapColumns \cup {<<>>, <<<<"2024", "Q1">>, <<"2024", "Q2">>>>}

RowsInit ==
    /\ rowsView \in [columns : RowsColumns, rows : RowTrees, settings : HeatmapSettings]
    /\ rowsModel = NoRowsModel
    /\ rowsPc = "input"

RowsIdle ==
    /\ rowsView = <<>>
    /\ rowsModel = NoRowsModel
    /\ rowsPc = "idle"

\* transformMatrix(matrix, settings) of a matrix with a row tree
RowsTransform ==
    /\ rowsPc = "input"
    /\ rowsModel' = transformMatrix([columns |-> rowsView.columns,
                                     rows |-> GroupedRowLeaves(rowsView.rows)],
                                    rowsView.settings)
    /\ rowsPc' = "done"
    /\ UNCHANGED rowsView
    /\ UNCHANGED notRowsVars

RowsNext == RowsTransform

-----------------------------------------------------------------------------
(* Timeline: temporal level of several columns (WorldHistoryTimelineTransformer.ts) *)

(* The inputs: one to MaxLevelColumns columns, each with a name with or
   without a hierarchy hint, typed as a date by the host or not, and two
   values: null, a quarter or month or day number, a year, an epoch
   timestamp, or NaN. *)
LevelValues ==
    {<<NullV, NullV>>, <<NullV, Big(0, 3)>>, <<Big(0, 7), NullV>>, <<Big(0, 25), Big(0, 3)>>,
     <<Big(0, 3), Big(0, 2024)>>, <<NullV, Big(1700, 0)>>, <<NaNV, NullV>>,
     <<Big(0, 40), NullV>>}

LevelColumns == [name : TimelineNames, dateTyped : BOOLEAN, values : LevelValues]

NoLevel == [level |-> "unset"]

LevelsInit ==
    /\ lvColumns \in UNION {[1..n -> LevelColumns] : n \in 1..MaxLevelColumns}
    /\ lvOut = NoLevel
    /\ lvPc = "input"

LevelsIdle ==
    /\ lvColumns = <<>>
    /\ lvOut = NoLevel
    /\ lvPc = "idle"

\* inferTemporalLevel(columns)
InferLevel ==
    /\ lvPc = "input"
    /\ lvOut' = inferTemporalLevel(lvColumns)
    /\ lvPc' = "done"
    /\ UNCHANGED lvColumns
    /\ UNCHANGED notLvVars

LevelsNext == InferLevel

-----------------------------------------------------------------------------
(* The timeline on the date scale: one row whose endpoints are read from a
   date hierarchy.  A timestamp of UTC midnight is the Date record of its
   day, [k |-> "date", y, m, d] with m counted from 1; the values of the row
   are null, a Date and small whole numbers (no string, no epoch number). *)
UtcDate(y, m, d) == [k |-> "date", y |-> y, m |-> m, d |-> d]

IsLeapYear(y) == (y % 4 = 0 /\ y % 100 # 0) \/ y % 400 = 0

DaysInMonth(y, m) ==
    IF m = 2 THEN (IF IsLeapYear(y) THEN 29 ELSE 28)
    ELSE IF m \in {4, 6, 9, 11} THEN 30
    ELSE 31

\* Date.UTC(year, monthIndex, day) for monthIndex in 0..11 and day in 1..31:
\* a year 0..99 is a year of the 1900s, and a day past the end of the month
\* runs over into the next month
DateUTC(year, monthIndex, day) ==
    LET y == IF year >= 0 /\ year <= 99 THEN 1900 + year ELSE year
    IN  IF day <= DaysInMonth(y, monthIndex + 1)
        THEN UtcDate(y, monthIndex + 1, day)
        ELSE UtcDate(y, monthIndex + 2, day - DaysInMonth(y, monthIndex + 1))

\* new Date(t).getUTCFullYear()
getUTCFullYear(t) == t.y

\* a < b for two timestamps, or for two small whole numbers
DateLess(a, b) ==
    IF a.k = "date"
    THEN \/ a.y < b.y
         \/ a.y = b.y /\ a.m < b.m
         \/ a.y = b.y /\ a.m = b.m /\ a.d < b.d
    ELSE a.lo < b.lo

\* parseMonthValue of null, a Date or a number: the month 1..12, or 0 for null
parseMonthValue(rawValue) ==
    IF rawValue.k = "num" /\ BigIntIn(rawValue, 1, 12) THEN rawValue.lo ELSE 0

\* parseQuarterValue of null, a Date or a number: the quarter 1..4, or 0 for null
parseQuarterValue(rawValue) ==
    IF rawValue.k = "num" /\ BigIntIn(rawValue, 1, 4) THEN rawValue.lo ELSE 0

\* parseIntegerValue narrowed to the range of a day: the day 1..31, or 0
DayValue(rawValue) ==
    IF rawValue.k = "num" /\ BigIntIn(rawValue, 1, 31) THEN rawValue.lo ELSE 0

NoParts == [month |-> 0, quarter |-> 0, day |-> 0]

\* resolveDateWithReferenceYear: one pass of the loop over the columns;
\* 0 stands for a part that is still null
ReferencePart(parts, column, rowIndex) ==
    LET rawValue == ValueAt(column, rowIndex)
        monthValue == parseMonthValue(rawValue)
        dayValue == DayValue(rawValue)
        quarterValue == parseQuarterValue(rawValue)
    IN  IF rawValue.k = "null" THEN parts
        ELSE IF NameIsQuarter(column.name) /\ quarterValue # 0
        THEN [parts EXCEPT !.quarter = quarterValue]
        ELSE IF NameIsMonth(column.name) /\ monthValue # 0
        THEN [parts EXCEPT !.month = monthValue]
        ELSE IF NameIsDay(column.name) /\ dayValue # 0
        THEN [parts EXCEPT !.day = dayValue]
        ELSE IF parts.month = 0 /\ monthValue # 0
        THEN [parts EXCEPT !.month = monthValue]
        ELSE IF parts.day = 0 /\ dayValue # 0
        THEN [parts EXCEPT !.day = dayValue]
        ELSE IF parts.quarter = 0 /\ quarterValue # 0
        THEN [parts EXCEPT !.quarter = quarterValue]
        ELSE parts

RECURSIVE ReferenceParts(_, _, _)
ReferenceParts(parts, columns, rowIndex) ==
    IF columns = <<>> THEN parts
    ELSE ReferenceParts(ReferencePart(parts, Head(columns), rowIndex),
                        Tail(columns), rowIndex)

\* A plausible slip: the quarter is looked at before the month
DateOfPartsQuarterFirst(parts, referenceYear) ==
    IF parts.quarter # 0
    THEN DateUTC(referenceYear, (Max(1, Min(4, parts.quarter)) - 1) * 3, 1)
    ELSE IF parts.month # 0
    THEN DateUTC(referenceYear, Max(0, Min(11, parts.month - 1)),
                 Max(1, Min(31, IF parts.day = 0 THEN 1 ELSE parts.day)))
    ELSE IF parts.day # 0
    THEN DateUTC(referenceYear, 0, Max(1, Min(31, parts.day)))
    ELSE NullV

\* resolveDateWithReferenceYear: the date built once the loop is over
DateOfParts(parts, referenceYear) ==
    IF parts.month # 0
    THEN DateUTC(referenceYear, Max(0, Min(11, parts.month - 1)),
                 Max(1, Min(31, IF parts.day = 0 THEN 1 ELSE parts.day)))
    ELSE IF parts.quarter # 0
    THEN DateUTC(referenceYear, (Max(1, Min(4, parts.quarter)) - 1) * 3, 1)
    ELSE IF parts.day # 0
    THEN DateUTC(referenceYear, 0, Max(1, Min(31, parts.day)))
    ELSE NullV

resolveDateWithReferenceYear(columns, rowIndex, referenceYear) ==
    DateOfParts(ReferenceParts(NoParts, columns, rowIndex), referenceYear)

\* resolveTimelineOrdinalFromHierarchy: the same loop and the same date, the
\* year being the fallback year
resolveTimelineOrdinalFromHierarchy(columns, rowIndex, fallbackYear) ==
    DateOfParts(ReferenceParts(NoParts, columns, rowIndex), fallbackYear)

NoHierarchy == [done |-> FALSE, date |-> NullV, year |-> 0, quarter |-> 0,
                month |-> 0, day |-> 0]

\* resolveTimelineDateFromHierarchy: one pass of the loop over the columns; a
\* Date ends the loop with its time
HierarchyPart(h, column, rowIndex) ==
    LET rawValue == ValueAt(column, rowIndex)
        intValue == IF rawValue.k = "num" THEN rawValue.lo ELSE 0
        isInt == rawValue.k = "num"
        monthValue == parseMonthValue(rawValue)
        quarterValue == parseQuarterValue(rawValue)
    IN  IF h.done \/ rawValue.k = "null" THEN h
        ELSE IF rawValue.k = "date" THEN [h EXCEPT !.done = TRUE, !.date = rawValue]
        ELSE IF NameIsYear(column.name) /\ isInt THEN [h EXCEPT !.year = intValue]
        ELSE IF NameIsQuarter(column.name) /\ quarterValue # 0
        THEN [h EXCEPT !.quarter = quarterValue]
        ELSE IF NameIsMonth(column.name) /\ monthValue # 0
        THEN [h EXCEPT !.month = monthValue]
        ELSE IF NameIsDay(column.name) /\ isInt /\ intValue >= 1 /\ intValue <= 31
        THEN [h EXCEPT !.day = intValue]
        ELSE IF isInt /\ h.year = 0 /\ intValue >= 1000 /\ intValue <= 9999
        THEN [h EXCEPT !.year = intValue]
        ELSE IF isInt /\ h.month = 0 /\ intValue >= 1 /\ intValue <= 12
        THEN [h EXCEPT !.month = intValue]
        ELSE IF isInt /\ h.day = 0 /\ intValue >= 1 /\ intValue <= 31
        THEN [h EXCEPT !.day = intValue]
        ELSE IF h.month = 0 /\ monthValue # 0
        THEN [h EXCEPT !.month = monthValue]
        ELSE h

RECURSIVE HierarchyParts(_, _, _)
HierarchyParts(h, columns, rowIndex) ==
    IF columns = <<>> THEN h
    ELSE HierarchyParts(HierarchyPart(h, Head(columns), rowIndex),
                        Tail(columns), rowIndex)

resolveTimelineDateFromHierarchy(columns, rowIndex) ==
    LET h == HierarchyParts(NoHierarchy, columns, rowIndex)
        resolvedMonth == IF h.month # 0 THEN h.month
                         ELSE IF h.quarter # 0 THEN (h.quarter - 1) * 3 + 1
                         ELSE 1
        resolvedDay == IF h.day # 0 THEN h.day ELSE 1
    IN  IF h.done THEN h.date
        ELSE IF h.year = 0 THEN NullV
        ELSE DateUTC(h.year, Max(0, Min(11, resolvedMonth - 1)),
                     Max(1, Min(31, resolvedDay)))

\* parseDateFromHierarchyLevel of null, a Date or a small whole number
parseDateFromHierarchyLevel(column, rowIndex) ==
    LET rawValue == ValueAt(column, rowIndex)
        isInt == rawValue.k = "num"
    IN  IF rawValue.k = "null" THEN NullV
        ELSE IF rawValue.k = "date" THEN rawValue
        ELSE IF NameIsYear(column.name) /\ isInt THEN DateUTC(rawValue.lo, 0, 1)
        ELSE IF NameIsQuarter(column.name) /\ parseQuarterValue(rawValue) # 0 THEN NullV
        ELSE IF NameIsMonth(column.name) /\ parseMonthValue(rawValue) # 0 THEN NullV
        ELSE IF NameIsDay(column.name) /\ DayValue(rawValue) # 0 THEN NullV
        ELSE IF isInt /\ BigIntIn(rawValue, 1000, 9999) THEN DateUTC(rawValue.lo, 0, 1)
        ELSE NullV

\* resolveTimelineValue: the first level that parses, from the deepest upwards
RECURSIVE DeepestLevelDate(_, _)
DeepestLevelDate(columns, rowIndex) ==
    IF columns = <<>> THEN NullV
    ELSE LET parsed == parseDateFromHierarchyLevel(columns[Len(columns)], rowIndex)
         IN  IF parsed.k # "null" THEN parsed
             ELSE DeepestLevelDate(SubSeq(columns, 1, Len(columns) - 1), rowIndex)

\* resolveTimelineValue with preferDateHierarchy true; fallbackYear 0 is null
resolveTimelineDateValue(columns, rowIndex, fallbackYear) ==
    LET resolvedFromHierarchy == resolveTimelineDateFromHierarchy(columns, rowIndex)
        parsedFromLevel == DeepestLevelDate(columns, rowIndex)
        resolvedFromOrdinalHierarchy ==
            resolveTimelineOrdinalFromHierarchy(
                columns, rowIndex, IF fallbackYear # 0 THEN fallbackYear ELSE 2000)
    IN  IF resolvedFromHierarchy.k # "null" THEN resolvedFromHierarchy
        ELSE IF parsedFromLevel.k # "null" THEN parsedFromLevel
        ELSE IF resolvedFromOrdinalHierarchy.k # "null" THEN resolvedFromOrdinalHierarchy
        ELSE resolveTimelineValue(columns, rowIndex)

\* inferReferenceYear of columns of one row: the median of the one year found,
\* 0 for null
ReferenceYearOfColumn(column, rowIndex) ==
    LET parsedDate == parseDateFromHierarchyLevel(column, rowIndex)
        rawValue == ValueAt(column, rowIndex)
    IN  IF parsedDate.k # "null" THEN getUTCFullYear(parsedDate)
        ELSE IF rawValue.k = "num" /\ BigIntIn(rawValue, 1000, 9999) THEN rawValue.lo
        ELSE 0

RECURSIVE FirstReferenceYear(_, _)
FirstReferenceYear(columns, rowIndex) ==
    IF columns = <<>> THEN 0
    ELSE LET year == ReferenceYearOfColumn(Head(columns), rowIndex)
         IN  IF year # 0 THEN year ELSE FirstReferenceYear(Tail(columns), rowIndex)

inferReferenceYear(columns) ==
    LET resolvedDate == resolveTimelineDateFromHierarchy(columns, 0)
    IN  IF resolvedDate.k # "null" THEN getUTCFullYear(resolvedDate)
        ELSE FirstReferenceYear(columns, 0)

\* transform: the end of the body of the row loop, from the two endpoints to
\* the ordered pair; kept is FALSE where the row is skipped
OrderedRow(startYear, endYear) ==
    LET start2 == IF startYear.k = "null" THEN endYear ELSE startYear
        end2 == IF endYear.k = "null" THEN startYear ELSE endYear
    IN  IF start2.k = "null" \/ end2.k = "null"
        THEN [kept |-> FALSE, startYear |-> NullV, endYear |-> NullV]
        ELSE IF DateLess(end2, start2)
        THEN [kept |-> TRUE, startYear |-> end2, endYear |-> start2]
        ELSE [kept |-> TRUE, startYear |-> start2, endYear |-> end2]

\* transform: the two anchoring steps of the row loop on the date scale
AnchoredRow(startColumns, endColumns, startHasYear, endHasYear, startYear, endYear) ==
    LET anchoredStart ==
            IF ~startHasYear /\ endHasYear /\ endYear.k # "null"
            THEN resolveDateWithReferenceYear(startColumns, 0, getUTCFullYear(endYear))
            ELSE NullV
        start1 == IF anchoredStart.k # "null" THEN anchoredStart ELSE startYear
        anchoredEnd ==
            IF ~endHasYear /\ startHasYear /\ start1.k # "null"
            THEN resolveDateWithReferenceYear(endColumns, 0, getUTCFullYear(start1))
            ELSE NullV
        end1 == IF anchoredEnd.k # "null" THEN anchoredEnd ELSE endYear
    IN  OrderedRow(start1, end1)

\* transform of one row, on the date scale or on the numeric scale
ReferenceRow(startColumns, endColumns, isDateScale) ==
    IF isDateScale
    THEN LET fallbackReferenceYear == inferReferenceYear(startColumns \o endColumns)
         IN  AnchoredRow(startColumns, endColumns,
                         hasYearInRow(startColumns, 0), hasYearInRow(endColumns, 0),
                         resolveTimelineDateValue(startColumns, 0, fallbackReferenceYear),
                         resolveTimelineDateValue(endColumns, 0, fallbackReferenceYear))
    ELSE OrderedRow(resolveTimelineValue(startColumns, 0),
                    resolveTimelineValue(endColumns, 0))

(* The inputs: an endpoint of one or two levels and an endpoint of one level,
   either of them the start, every level named for a part of the date or not
   at all, with one value each. *)
ReferenceNames == TimelineNames \cup {"date.quarter", "date.day"}

ReferenceValues ==
    {NullV, Big(0, 2), Big(0, 31), Big(0, 2021), UtcDate(2022, 2, 10)}

ReferenceColumns ==
    {[name |-> n, dateTyped |-> FALSE, values |-> <<v>>] :
        n \in ReferenceNames, v \in ReferenceValues}

ReferenceEndpoints ==
    {<<c>> : c \in ReferenceColumns}
        \cup {<<c, d>> : c \in ReferenceColumns, d \in ReferenceColumns}

ReferenceViews ==
    {[start |-> e, end |-> <<c>>] : e \in ReferenceEndpoints, c \in ReferenceColumns}
        \cup {[start |-> <<c>>, end |-> e] :
                 e \in ReferenceEndpoints, c \in ReferenceColumns}

NoReferenceRow == [kept |-> FALSE, startYear |-> NullV, endYear |-> NullV,
                   scale |-> "unset"]

ReferenceInit ==
    /\ refView \in ReferenceViews
    /\ refRow = NoReferenceRow
    /\ refPc = "input"

ReferenceIdle ==
    /\ refView = [start |-> <<>>, end |-> <<>>]
    /\ refRow = NoReferenceRow
    /\ refPc = "idle"

\* transform: isDateScale, then the row loop over the one row of the view
ReferenceTransform ==
    /\ refPc = "input"
    /\ LET isDateScale == \/ hasHierarchyHints(refView.start)
                          \/ hasHierarchyHints(refView.end)
                          \/ isDateLikeColumns(refView.start)
                          \/ isDateLikeColumns(refView.end)
       IN  refRow' = [scale |-> IF isDateScale THEN "date" ELSE "numeric"]
                        @@ ReferenceRow(refView.start, refView.end, isDateScale)
    /\ refPc' = "done"
    /\ UNCHANGED <<refView, notRefVars>>

ReferenceNext == ReferenceTransform

-----------------------------------------------------------------------------
(* The highlight state of a categorical view (shared/highlight.ts).  A number
   of a value column is Num(n) and stands for n * 5e-10, so that two numbers
   closer than the tolerance of valuesAreEqual differ in the model. *)
valuesAreEqual(left, right) ==
    \/ left = right /\ left.k # "nan"
    \/ /\ left.k = "num"
       /\ right.k = "num"
       /\ left.n - right.n <= 2         \* Math.abs(left - right) <= 1e-9
       /\ right.n - left.n <= 2

IsNullish(value) == value.k \in {"null", "undefined"}

\* values[rowIndex], rowIndex counted from 0; undefined past the end
BaseValueAt(values, rowIndex) ==
    IF rowIndex + 1 <= Len(values) THEN values[rowIndex + 1] ELSE UndefinedV

\* A plausible slip: every zero highlight is taken as not selected
IsZeroSuppressedAnyBase(highlightValue, baseValue) ==
    highlightValue = Num(0)

\* collectHighlightRows: isZeroSuppressedNumeric
IsZeroSuppressedNumeric(highlightValue, baseValue) ==
    /\ highlightValue = Num(0)
    /\ ~IsNullish(baseValue)
    /\ ~valuesAreEqual(baseValue, Num(0))

\* collectHighlightRows: what the loop over the highlights of one column finds
CollectColumn(column) ==
    LET highlights == column.highlights
        rows == 0..(Len(highlights) - 1)
        columnHasNullHighlight == \E r \in rows : IsNullish(highlights[r + 1])
        columnHasNonNullHighlight == \E r \in rows : ~IsNullish(highlights[r + 1])
        columnDiffersFromBase ==
            \E r \in rows :
                /\ ~IsNullish(highlights[r + 1])
                /\ ~valuesAreEqual(highlights[r + 1], BaseValueAt(column.values, r))
        columnSelectedRows ==
            {r \in rows :
                /\ ~IsNullish(highlights[r + 1])
                /\ ~IsZeroSuppressedNumeric(highlights[r + 1],
                                            BaseValueAt(column.values, r))}
    IN  [columnHasIncomingHighlights |->
             columnHasNonNullHighlight
                 /\ (columnHasNullHighlight \/ columnDiffersFromBase),
         columnSelectedRows |-> columnSelectedRows]

collectHighlightRows(columns) ==
    LET incoming == {c \in 1..Len(columns) :
                        CollectColumn(columns[c]).columnHasIncomingHighlights}
    IN  [highlightedRows |->
             UNION {CollectColumn(columns[c]).columnSelectedRows : c \in incoming},
         hasIncomingHighlights |-> incoming # {}]

\* getValueColumnsWithHighlights: the columns whose highlights is an array
getValueColumnsWithHighlights(valueColumns) ==
    LET HasArray(column) == column.hasHighlights
    IN  SelectSeq(valueColumns, HasArray)

\* getCategoricalHighlightState; hasPreferredRole is the flag of the column
getCategoricalHighlightState(valueColumns) ==
    LET valueColumnsWithHighlights == getValueColumnsWithHighlights(valueColumns)
        IsPreferred(column) == column.preferred
        preferredColumns == SelectSeq(valueColumnsWithHighlights, IsPreferred)
        selectedColumns == IF Len(preferredColumns) > 0 THEN preferredColumns
                           ELSE valueColumnsWithHighlights
        collected == collectHighlightRows(selectedColumns)
    IN  IF valueColumnsWithHighlights = <<>>
        THEN [hasIncomingHighlights |-> FALSE, highlightedRows |-> {}]
        ELSE IF ~collected.hasIncomingHighlights /\ Len(preferredColumns) > 0
        THEN collectHighlightRows(valueColumnsWithHighlights)
        ELSE collected

(* The inputs: two value columns of two rows; a base is null, 0, 5e-10 or
   2e-9, a highlight null, 0 or 2e-9; a column may have no highlights array
   and may carry one of the preferred roles. *)
IncomingBases == {NullV, Num(0), Num(1), Num(4)}
IncomingHighlights == {NullV, Num(0), Num(4)}

IncomingColumns ==
    {[preferred |-> p, hasHighlights |-> TRUE,
      highlights |-> <<h1, h2>>, values |-> <<b1, b2>>] :
        p \in BOOLEAN, h1 \in IncomingHighlights, h2 \in IncomingHighlights,
        b1 \in IncomingBases, b2 \in IncomingBases}
      \cup {[preferred |-> p, hasHighlights |-> FALSE,
             highlights |-> <<>>, values |-> <<Num(4), Num(4)>>] : p \in BOOLEAN}

NoHighlightState == [hasIncomingHighlights |-> FALSE, highlightedRows |-> {-1}]

IncomingInit ==
    /\ hsColumns \in {<<c, d>> : c \in IncomingColumns, d \in IncomingColumns}
    /\ hsOut = NoHighlightState
    /\ hsPc = "input"

IncomingIdle ==
    /\ hsColumns = <<>>
    /\ hsOut = NoHighlightState
    /\ hsPc = "idle"

GetHighlightState ==
    /\ hsPc = "input"
    /\ hsOut' = getCategoricalHighlightState(hsColumns)
    /\ hsPc' = "done"
    /\ UNCHANGED hsColumns
    /\ UNCHANGED notHsVars

IncomingNext == GetHighlightState

-----------------------------------------------------------------------------
(* The sort mode of the timeline visual across updates (Visual.update,
   resolveSortControlOptions, syncSortControl).  The configuration string of
   the sort options is the sequence of its tokens, split at the commas,
   trimmed and lower-cased. *)
TimelineSortModes == {"region", "time", "category", "end", "duration"}

\* aliasToMode[token], "undefined" for a token that is no alias
aliasToMode(token) ==
    CASE token = "region" -> "region"
      [] token \in {"time", "start"} -> "time"
      [] token \in {"category", "civilization"} -> "category"
      [] token \in {"end", "endtime"} -> "end"
      [] token = "duration" -> "duration"
      [] OTHER -> "undefined"

\* SUPPORTED_SORT_OPTIONS[mode].requiresRegion
requiresRegion(mode) == mode = "region"

\* resolveSortControlOptions: the loop over the tokens
RECURSIVE OrderedModes(_, _)
OrderedModes(orderedModes, tokens) ==
    IF tokens = <<>> THEN orderedModes
    ELSE LET mode == aliasToMode(Head(tokens))
             seen == {orderedModes[i] : i \in 1..Len(orderedModes)}
         IN  IF mode = "undefined" \/ mode \in seen
             THEN OrderedModes(orderedModes, Tail(tokens))
             ELSE OrderedModes(Append(orderedModes, mode), Tail(tokens))

resolveSortControlOptions(tokens, canSortByRegion) ==
    LET parsed == OrderedModes(<<>>, tokens)
        orderedModes == IF parsed = <<>> THEN <<"region", "time">> ELSE parsed
    IN  [i \in 1..Len(orderedModes) |->
            [mode |-> orderedModes[i],
             disabled |-> requiresRegion(orderedModes[i]) /\ ~canSortByRegion]]

\* sortOptions.some(opt => opt.mode === mode && !opt.disabled)
IsEnabledOption(sortOptions, mode) ==
    \E i \in 1..Len(sortOptions) : sortOptions[i].mode = mode /\ ~sortOptions[i].disabled

\* sortOptions.find(opt => !opt.disabled)?.mode ?? "time"
FallbackSortBy(sortOptions) ==
    LET enabled == {i \in 1..Len(sortOptions) : ~sortOptions[i].disabled}
    IN  IF enabled = {} THEN "time"
        ELSE sortOptions[CHOOSE i \in enabled : \A j \in enabled : i <= j].mode

\* A plausible slip: the sort mode of the settings comes before the runtime choice
EffectiveSortBySettingsFirst(runtimeSortBy, settingsSortBy, sortOptions) ==
    IF IsEnabledOption(sortOptions, settingsSortBy) THEN settingsSortBy
    ELSE IF runtimeSortBy # "null" THEN runtimeSortBy
    ELSE FallbackSortBy(sortOptions)

\* this.runtimeSortBy ?? (settingsSortValid ? settings.timeline.sortBy : fallbackSortBy),
\* the runtime choice being valid or null by now
EffectiveSortBy(runtimeSortBy, settingsSortBy, sortOptions) ==
    IF runtimeSortBy # "null" THEN runtimeSortBy
    ELSE IF IsEnabledOption(sortOptions, settingsSortBy) THEN settingsSortBy
    ELSE FallbackSortBy(sortOptions)

\* syncSortControl: whether the control is shown and its trigger disabled
SortControl(allowInteractions, visible, sortOptions) ==
    LET shouldShow == visible /\ allowInteractions /\ Len(sortOptions) > 0
        enabledCount == Cardinality({i \in 1..Len(sortOptions) : ~sortOptions[i].disabled})
    IN  [shown |-> shouldShow, triggerDisabled |-> shouldShow /\ enabledCount <= 1]

\* Visual.update(options): the visual and what it rendered
VisualUpdate(visual, options, by) ==
    IF options.data = "none" \/ options.items = 0
    THEN [visual |-> [visual EXCEPT !.lastUpdateOptions = options],
          out |-> [rendered |-> FALSE, by |-> by, sortBy |-> "time", sortOptions |-> <<>>]
                    @@ SortControl(visual.allowInteractions, FALSE, <<>>)]
    ELSE LET canSortByRegion == options.hasRegionRoleData /\ options.regions > 1
             sortOptions == resolveSortControlOptions(options.sortOptions, canSortByRegion)
             runtimeSortValid == /\ visual.runtimeSortBy # "null"
                                 /\ IsEnabledOption(sortOptions, visual.runtimeSortBy)
             runtimeSortBy == IF runtimeSortValid THEN visual.runtimeSortBy ELSE "null"
             effectiveSortBy == EffectiveSortBy(runtimeSortBy, options.sortBy, sortOptions)
         IN  [visual |-> [visual EXCEPT !.lastUpdateOptions = options,
                                        !.runtimeSortBy = runtimeSortBy],
              out |-> [rendered |-> TRUE, by |-> by, sortBy |-> effectiveSortBy,
                       sortOptions |-> sortOptions]
                        @@ SortControl(visual.allowInteractions, TRUE, sortOptions)]

(* The inputs: an update without a data view, with a data view without items
   or with one or two items of one or two regions; five configurations of
   the options, among them the empty one, aliases, a repeated mode, an
   unknown token and the region option alone. *)
SortConfigurations ==
    {<<>>, <<"region">>, <<"time", "region">>, <<"start", "time", "end">>,
     <<"bogus", "duration", "category">>}

UpdateOptions ==
    [data : {"none"}, items : {0}, hasRegionRoleData : {FALSE}, regions : {0},
     sortOptions : {<<>>}, sortBy : {"time"}]
      \cup [data : {"view"}, items : {0}, hasRegionRoleData : BOOLEAN, regions : {0},
            sortOptions : SortConfigurations, sortBy : {"time"}]
      \cup [data : {"view"}, items : {2}, hasRegionRoleData : BOOLEAN, regions : {1, 2},
            sortOptions : SortConfigurations, sortBy : TimelineSortModes]

NoUpdateOptions == [data |-> "unset"]

NoRender == [rendered |-> FALSE, by |-> "none", sortBy |-> "time", sortOptions |-> <<>>,
             shown |-> FALSE, triggerDisabled |-> FALSE]

SortModeInit ==
    /\ smVisual \in [allowInteractions : BOOLEAN, runtimeSortBy : {"null"},
                     lastUpdateOptions : {NoUpdateOptions}]
    /\ smOut = NoRender

SortModeIdle ==
    /\ smVisual = [allowInteractions |-> FALSE, runtimeSortBy |-> "null",
                   lastUpdateOptions |-> NoUpdateOptions]
    /\ smOut = [NoRender EXCEPT !.by = "idle"]

\* The host calls update(options)
HostUpdate ==
    /\ smOut.by # "idle"
    /\ \E options \in UpdateOptions :
          LET r == VisualUpdate(smVisual, options, "update")
          IN  /\ smVisual' = r.visual
              /\ smOut' = r.out
    /\ UNCHANGED notSmVars

\* The user picks an option of the open menu: the control is shown, its
\* trigger opens the menu and the option is not disabled.  The handler sets
\* runtimeSortBy and runs update(lastUpdateOptions)
ClickSortOption ==
    /\ smOut.by # "idle"
    /\ smOut.shown
    /\ ~smOut.triggerDisabled
    /\ \E i \in 1..Len(smOut.sortOptions) :
          /\ ~smOut.sortOptions[i].disabled
          /\ LET r == VisualUpdate([smVisual EXCEPT
                                       !.runtimeSortBy = smOut.sortOptions[i].mode],
                                   smVisual.lastUpdateOptions, "click")
             IN  /\ smVisual' = r.visual
                 /\ smOut' = r.out
    /\ UNCHANGED notSmVars

SortModeNext == HostUpdate \/ ClickSortOption

-----------------------------------------------------------------------------
(* Claims about the axis builder *)

AxisBuilt == axisPc \in {"built", "spliced"}

SpanCount(L) == Len(axis.spansByLevel[L])

\* The spans of level L (1-based position in spansByLevel) partition 0..n-1
SpansPartition(L) ==
    LET spans == axis.spansByLevel[L]
        n == Len(leafPaths)
    IN  /\ n > 0 => Len(spans) > 0
        /\ n = 0 => Len(spans) = 0
        /\ Len(spans) > 0 =>
              /\ spans[1].startLeafIndex = 0
              /\ spans[Len(spans)].endLeafIndex = n - 1
        /\ \A s \in 1..Len(spans) :
              /\ spans[s].level = L - 1
              /\ spans[s].startLeafIndex <= spans[s].endLeafIndex
              /\ s > 1 => spans[s].startLeafIndex = spans[s - 1].endLeafIndex + 1

RECURSIVE SpanLengthSum(_)
SpanLengthSum(spans) ==
    IF spans = <<>> THEN 0
    ELSE Head(spans).endLeafIndex - Head(spans).startLeafIndex + 1
            + SpanLengthSum(Tail(spans))

(* C1: for every leafKeys/leafPaths of equal length, ragged paths and a
   spliced Total leaf included, the hierarchy returned has depth = the
   longest path length (0 without leaves), one span list per level, and at
   every level the spans in order partition the leaf indices 0..n-1: the
   first starts at 0, each next one starts right after the previous one's
   end, the last ends at n-1, no span is empty, the lengths sum to n. *)
C1_AxisPartition ==
    AxisBuilt =>
        /\ Len(leafKeys) = Len(leafPaths)
        /\ axis.leafKeys = leafKeys
        /\ axis.leafPaths = leafPaths
        /\ axis.depth >= 0
        /\ \A i \in 1..Len(leafPaths) : Len(leafPaths[i]) <= axis.depth
        /\ (leafPaths = <<>>) => axis.depth = 0
        /\ (leafPaths # <<>>) => \E i \in 1..Len(leafPaths) : Len(leafPaths[i]) = axis.depth
        /\ Len(axis.spansByLevel) = axis.depth
        /\ \A L \in 1..axis.depth :
              /\ SpansPartition(L)
              /\ SpanLengthSum(axis.spansByLevel[L]) = Len(leafKeys)

\* A hierarchy of depth 2 over ragged paths with a spliced Total leaf and a
\* level holding several spans, one of them longer than one leaf
C1_Witness ==
    /\ axisPc = "spliced"
    /\ axis.depth = 2
    /\ Len(leafPaths) = MaxLeaves + 1
    /\ \E i \in 1..Len(leafPaths) : Len(leafPaths[i]) = 1
    /\ \E i \in 1..Len(leafKeys) : leafKeys[i] = TOTAL_COL_KEY
    /\ \E s \in 1..SpanCount(1) :
          axis.spansByLevel[1][s].endLeafIndex > axis.spansByLevel[1][s].startLeafIndex
    /\ SpanCount(2) > 2

\* path[0..L] joined, L counted from 0, as the claim states it
JoinedPrefix(path, L) == Join(SubSeq(path, 1, Min(L + 1, Len(path))), KEY_SEP)

LevelLabelOf(path, L) == IF Len(path) > L THEN path[L + 1] ELSE ""

StartsSpan(L, i) ==
    \E s \in 1..SpanCount(L + 1) : axis.spansByLevel[L + 1][s].startLeafIndex = i

ScenarioPaths == <<(<<"2024", "Q1">>), (<<"2024", "Q2">>), (<<"2025", "Q1">>)>>

(* C10: the spans are maximal runs.  At every level L a leaf i > 0 starts a
   new span iff its joined prefix path[0..L] differs from that of leaf i-1,
   so two adjacent spans of a level never share a key; the key of a span is
   the joined prefix and its label the level-L label of its first leaf, ""
   when that path is shorter than L+1.  For the paths 2024/Q1, 2024/Q2,
   2025/Q1 level 0 is exactly {"2024", 0..1}, {"2025", 2..2}. *)
C10_MaximalRuns ==
    AxisBuilt =>
        /\ \A L \in 0..(axis.depth - 1) :
              LET spans == axis.spansByLevel[L + 1]
              IN  /\ \A i \in 1..(Len(leafPaths) - 1) :
                        StartsSpan(L, i) <=>
                            JoinedPrefix(leafPaths[i + 1], L) # JoinedPrefix(leafPaths[i], L)
                  /\ \A s \in 1..Len(spans) :
                        /\ spans[s].key = JoinedPrefix(leafPaths[spans[s].startLeafIndex + 1], L)
                        /\ spans[s].label = LevelLabelOf(leafPaths[spans[s].startLeafIndex + 1], L)
                        /\ s > 1 => spans[s].key # spans[s - 1].key
        /\ leafPaths = ScenarioPaths =>
              axis.spansByLevel[1] =
                 <<[level |-> 0, startLeafIndex |-> 0, endLeafIndex |-> 1,
                    label |-> "2024", key |-> "2024"],
                   [level |-> 0, startLeafIndex |-> 2, endLeafIndex |-> 2,
                    label |-> "2025", key |-> "2025"]>>

\* The scenario's hierarchy is built: level 0 merges two leaves, level 1 splits
\* two leaves that carry the same level-1 label under different parents
C10_Witness ==
    /\ axisPc = "built"
    /\ leafPaths = ScenarioPaths
    /\ SpanCount(1) = 2
    /\ SpanCount(2) = 3

-----------------------------------------------------------------------------
(* Claims about the epoch classification *)

EpochRaw(r) == epochColumns[1].values[r]

(* C7: the epoch threshold.  999,999,999 is not epoch-like and is returned
   unchanged by the normalization; 1,000,000,000 is epoch-like (seconds) and
   is normalized to 1,000,000,000,000; and normalizing a normalized value
   again changes nothing. *)
C7_EpochBoundary ==
    epochPc = "classified" =>
        \A r \in EpochRows :
            /\ EpochRaw(r) = N999999999 =>
                  /\ ~epochOut.epochLike[r]
                  /\ epochOut.normalized[r] = N999999999
            /\ EpochRaw(r) = N1000000000 =>
                  /\ epochOut.epochLike[r]
                  /\ epochOut.normalized[r] = N1000000000000
            /\ epochOut.again[r] = epochOut.normalized[r]

\* Both sides of the threshold were classified, and one value was multiplied
C7_Witness ==
    /\ epochPc = "classified"
    /\ \E r \in EpochRows : EpochRaw(r) = N999999999 /\ ~epochOut.epochLike[r]
    /\ \E r \in EpochRows :
          /\ EpochRaw(r) = N1000000000
          /\ epochOut.normalized[r] # EpochRaw(r)
          /\ epochOut.again[r] = N1000000000000

\* |v| in 1e9 .. 99,999,999,999 or in 1e12 .. 9,999,999,999,999
InEpochRanges(v) ==
    /\ v.k = "num"
    /\ \/ BigLeq(Big(1000, 0), BigAbs(v)) /\ BigLeq(BigAbs(v), Big(99999, 999999))
       \/ BigLeq(Big(1000000, 0), BigAbs(v)) /\ BigLeq(BigAbs(v), Big(9999999, 999999))

(* C8: every finite number whose absolute value lies in the epoch-second
   range or in the epoch-millisecond range is treated as a date: the row has
   year context and the column's temporal level is "date". *)
C8_EpochRangeIsDate ==
    epochPc = "classified" =>
        \A r \in EpochRows :
            InEpochRanges(EpochRaw(r)) =>
                /\ epochOut.hasYear[r]
                /\ epochOut.temporal.level = "date"

-----------------------------------------------------------------------------
(* Claims about the month-year sort key *)

SortKeyed == sortPc = "keyed"

MonthNames == <<<<"j", "a", "n">>, <<"f", "e", "b">>, <<"m", "a", "r">>,
                <<"a", "p", "r">>, <<"m", "a", "y">>, <<"j", "u", "n">>,
                <<"j", "u", "l">>, <<"a", "u", "g">>, <<"s", "e", "p">>,
                <<"o", "c", "t">>, <<"n", "o", "v">>, <<"d", "e", "c">>>>

\* The text reads "MMM-YYYY", "MMM YYYY", "MMM-YY" or "MMM YY".
ReadsMonthThenYear(str) ==
    /\ Len(str) \in {6, 8}
    /\ \E m \in 1..12 : MonthNames[m] = ToLowerCase(SubSeq(str, 1, 3))
    /\ str[4] \in {"-", " "}
    /\ AllDigits(SubSeq(str, 5, Len(str)))

\* The text reads "YYYY-MM" with MM a month.
ReadsYearThenMonth(str) ==
    /\ Len(str) = 7
    /\ AllDigits(SubSeq(str, 1, 4))
    /\ str[5] = "-"
    /\ AllDigits(SubSeq(str, 6, 7))
    /\ NumberOfDigits(SubSeq(str, 6, 7)) \in 1..12

IsMonthYearString(str) == ReadsMonthThenYear(str) \/ ReadsYearThenMonth(str)

MonthRead(str) ==
    IF ReadsMonthThenYear(str)
    THEN CHOOSE m \in 1..12 : MonthNames[m] = ToLowerCase(SubSeq(str, 1, 3))
    ELSE NumberOfDigits(SubSeq(str, 6, 7))

YearRead(str) ==
    IF ReadsMonthThenYear(str)
    THEN LET yy == NumberOfDigits(SubSeq(str, 5, Len(str)))
         IN  IF Len(str) = 8 THEN yy
             ELSE IF yy <= 79 THEN 2000 + yy ELSE 1900 + yy
    ELSE NumberOfDigits(SubSeq(str, 1, 4))

\* Month a of year ya is earlier than month b of year yb.
Earlier(ya, a, yb, b) == ya < yb \/ (ya = yb /\ a < b)

SortText(i) == Trim(sortLabels[i])
SortKeyIsNumber(i) == sortKeys[i].k = "num"

\* C9: a month-year string ("MMM-YYYY", "MMM YYYY", "MMM-YY", "MMM YY",
\* "YYYY-MM") gets the key year * 100 + month with month in 1..12 and a
\* two-digit year yy read as 2000 + yy when yy <= 79 and as 1900 + yy
\* otherwise; every other string gets no key (null); "Mar-2024" and "Mar-24"
\* both get 202403; and of any two strings that get a key, the one with the
\* smaller key is the chronologically earlier one.
C9_MonthYearKey ==
    SortKeyed =>
        /\ \A i \in 1..Len(sortLabels) :
              /\ IsMonthYearString(SortText(i)) =>
                    /\ SortKeyIsNumber(i)
                    /\ sortKeys[i].n = YearRead(SortText(i)) * 100 + MonthRead(SortText(i))
              /\ SortKeyIsNumber(i) =>
                    /\ IsMonthYearString(SortText(i))
                    /\ sortKeys[i].n % 100 \in 1..12
              /\ sortLabels[i] \in {<<"M", "a", "r", "-", "2", "0", "2", "4">>,
                                    <<"M", "a", "r", "-", "2", "4">>}
                    => sortKeys[i] = Num(202403)
        /\ \A i, j \in 1..Len(sortLabels) :
              (/\ SortKeyIsNumber(i) /\ IsMonthYearString(SortText(i))
               /\ SortKeyIsNumber(j) /\ IsMonthYearString(SortText(j))) =>
                  (sortKeys[i].n < sortKeys[j].n
                      <=> Earlier(YearRead(SortText(i)), MonthRead(SortText(i)),
                                  YearRead(SortText(j)), MonthRead(SortText(j))))

-----------------------------------------------------------------------------
(* Claims about the highlight override *)

HighlightDone == hlPc = "done"
HighlightPresent == hlHighlights /\ IsPresent(hlHighlight)

\* What a chart makes of a value that is not a finite number
EmptyValue(chart, v) == IF chart = "line" /\ v # NullV THEN NaNV ELSE Num(0)
AsChartNumber(chart, v) == IF IsFiniteNumber(v) THEN v ELSE EmptyValue(chart, v)

\* C3: in the heatmap, line, donut and bump transformers a row or cell whose
\* highlight is neither null nor undefined contributes the highlight alone
\* (never base + highlight, never the base), and a row or cell without one
\* contributes the base; a contribution that is not a finite number reads as
\* the chart's empty value.
C3_HighlightOverride ==
    HighlightDone =>
        hlOut.value = AsChartNumber(hlOut.chart,
                          IF HighlightPresent THEN hlHighlight ELSE hlBase)

C3_Witness ==
    /\ HighlightDone
    /\ hlOut.chart = "donut"
    /\ HighlightPresent
    /\ hlBase = Num(2)
    /\ hlHighlight = Num(5)
    /\ hlOut.value = Num(5)

-----------------------------------------------------------------------------
(* Claims about the line accumulator *)

LineDone == linePc = "done"

LinePositions == {<<g, i>> : g \in 1..Len(lineGroups), i \in 1..Len(lineRows)}

\* The rows the loop has been through
Accumulated ==
    {p \in LinePositions :
        \/ linePc \in {"collected", "done"}
        \/ linePc = "rows" /\ (p[1] < lineAt.g \/ (p[1] = lineAt.g /\ p[2] < lineAt.i))}

CompositeKey(p) ==
    <<lineGroups[p[1]].groupValue, SeriesKey(lineRows[p[2]].series), lineRows[p[2]].x>>
KeyString(p) == AccKey(CompositeKey(p)[1], CompositeKey(p)[2], CompositeKey(p)[3])

BaseOf(p) == ElementAt(lineGroups[p[1]].values, p[2])
HighlightOf(p) == ElementAt(lineGroups[p[1]].highlights, p[2])
Highlighted(p) == lineGroups[p[1]].hasHighlights /\ IsPresent(HighlightOf(p))

PointsOf(triple) ==
    {n \in 1..Len(lineModel.dataPoints) :
        <<lineModel.dataPoints[n].groupValue, lineModel.dataPoints[n].yValue,
          lineModel.dataPoints[n].xValue>> = triple}

\* The rows p and q are the only ones of their composite key
OnlyPair(p, q) ==
    /\ p # q
    /\ CompositeKey(p) = CompositeKey(q)
    /\ \A r \in LinePositions : CompositeKey(r) = CompositeKey(p) => r \in {p, q}

\* C4: two rows of one composite key (group, series, xValue) with finite base
\* values a and b and no highlight give exactly one data point, of value
\* a + b; and the output has exactly one data point per distinct composite key.
C4_OnePointPerKey ==
    LineDone =>
        /\ \A p, q \in LinePositions :
              (/\ OnlyPair(p, q)
               /\ ~Highlighted(p) /\ ~Highlighted(q)
               /\ IsFiniteNumber(BaseOf(p)) /\ IsFiniteNumber(BaseOf(q))) =>
                  \A n \in PointsOf(CompositeKey(p)) :
                      lineModel.dataPoints[n].value = Num(BaseOf(p).n + BaseOf(q).n)
        /\ \A p \in LinePositions : Cardinality(PointsOf(CompositeKey(p))) = 1
        /\ Len(lineModel.dataPoints) = Cardinality({CompositeKey(p) : p \in LinePositions})

\* The rows p and q are the only ones whose accumulator key is that of p
OnlyPairOfKey(p, q) ==
    /\ p # q
    /\ KeyString(p) = KeyString(q)
    /\ \A r \in LinePositions : KeyString(r) = KeyString(p) => r \in {p, q}

\* Row p carries the finite highlight h, row q of the same key only a base value
HighlightedAndPlain(p, q) ==
    /\ OnlyPairOfKey(p, q)
    /\ Highlighted(p) /\ IsFiniteNumber(HighlightOf(p))
    /\ ~Highlighted(q)

EntryOf(p) == lineAcc[AccIndex(lineAcc, KeyString(p))]

\* C5: of two rows of one composite key, one with a non-null highlight h and
\* one with only a base value b, the highlighted one wins: the value of the
\* data point is h.
C5_HighlightedWins ==
    LineDone =>
        \A p, q \in LinePositions :
            HighlightedAndPlain(p, q) => EntryOf(p).value = HighlightOf(p)

\* C5, amended: of two rows of one composite key, one with a finite highlight
\* h and one with only a base value b, the value of the data point is h + b
\* when b is a finite number (null counting as 0), and h when it is not.
C5_HighlightedAddsToPlain ==
    LineDone =>
        \A p, q \in LinePositions :
            HighlightedAndPlain(p, q) =>
                EntryOf(p).value =
                    IF IsFiniteNumber(ToNumber(BaseOf(q)))
                    THEN Num(HighlightOf(p).n + ToNumber(BaseOf(q)).n)
                    ELSE HighlightOf(p)

C5_Witness ==
    /\ LineDone
    /\ \E p, q \in LinePositions :
          /\ HighlightedAndPlain(p, q)
          /\ BaseOf(p) = Num(1)
          /\ BaseOf(q) = Num(2)
          /\ EntryOf(p).value = Num(7)

\* The contributions of the rows gone through so far to the key of an entry
ContributionsTo(key) == {p \in Accumulated : KeyString(p) = key}
ValueOf(p) == RowValue(lineGroups[p[1]], p[2])
Value2Of(p) == RowValue2(lineGroups[p[1]], p[2])

RECURSIVE SumOver(_, _)
SumOver(P, second) ==
    IF P = {} THEN 0
    ELSE LET p == CHOOSE r \in P : TRUE
             v == IF second THEN Value2Of(p) ELSE ValueOf(p)
         IN  (IF IsFiniteNumber(v) THEN v.n ELSE 0) + SumOver(P \ {p}, second)

SumOfFinite(P, second) ==
    IF \A p \in P : ~IsFiniteNumber(IF second THEN Value2Of(p) ELSE ValueOf(p))
    THEN NaNV
    ELSE Num(SumOver(P, second))

\* C6: at every point of the loop, the accumulated value of a key is NaN iff
\* none of its contributions so far was finite, and otherwise the sum of
\* exactly the finite ones; the same for value2; and the accumulator has an
\* entry for every key that has had a contribution.
C6_FiniteContributionsSummed ==
    /\ \A n \in 1..Len(lineAcc) :
          /\ ContributionsTo(lineAcc[n].key) # {}
          /\ lineAcc[n].value = SumOfFinite(ContributionsTo(lineAcc[n].key), FALSE)
          /\ lineAcc[n].value2 = SumOfFinite(ContributionsTo(lineAcc[n].key), TRUE)
    /\ \A p \in Accumulated : AccIndex(lineAcc, KeyString(p)) # 0

\* A key took a finite, a NaN and another finite contribution, in that order
C6_Witness ==
    /\ LineDone
    /\ Len(lineRows) = 3 /\ Len(lineGroups) = 1 /\ Len(lineAcc) = 1
    /\ ValueOf(<<1, 1>>) = Num(1)
    /\ ValueOf(<<1, 2>>) = NaNV
    /\ ValueOf(<<1, 3>>) = Num(2)
    /\ lineAcc[1].value = Num(3)
    /\ Value2Of(<<1, 1>>) = NaNV
    /\ Value2Of(<<1, 2>>) = Num(7)
    /\ lineAcc[1].value2 = Num(7)

-----------------------------------------------------------------------------
(* Claims about the heatmap totals *)

HeatmapDone == hmPc = "done"

HeatmapPoints(Selected(_)) ==
    {n \in 1..Len(hmModel.dataPoints) : Selected(hmModel.dataPoints[n])}

RECURSIVE SumOfPoints(_)
SumOfPoints(P) ==
    IF P = {} THEN 0
    ELSE LET n == CHOOSE m \in P : TRUE
         IN  hmModel.dataPoints[n].value + SumOfPoints(P \ {n})

RECURSIVE SumOfGrandTotals(_)
SumOfGrandTotals(G) ==
    IF G = {} THEN 0
    ELSE LET g == CHOOSE h \in G : TRUE
         IN  hmModel.totalsByGroup[g].grandTotal + SumOfGrandTotals(G \ {g})

HeatmapGroupSet == {hmModel.groups[n] : n \in 1..Len(hmModel.groups)}
HeatmapXKeys == {hmModel.dataPoints[n].xValue : n \in 1..Len(hmModel.dataPoints)}
HeatmapYKeys == {hmModel.dataPoints[n].yValue : n \in 1..Len(hmModel.dataPoints)}

\* C2: in the model returned for a matrix view, for every group g the grand
\* total of g is the sum of the values of the data points of g, the row total
\* of every x is the sum over the points of g at that x, the column total of
\* every y is the sum over the points of g at that y, the overall grand total
\* is the sum of the grand totals of the groups, and no data point carries a
\* total key, whatever the totals settings are.
C2_TotalsAreSums ==
    HeatmapDone =>
        /\ \A g \in HeatmapGroupSet :
              LET OfGroup(dp) == dp.groupValue = g
                  t == hmModel.totalsByGroup[g]
              IN  /\ t.grandTotal = SumOfPoints(HeatmapPoints(OfGroup))
                  /\ \A x \in HeatmapXKeys :
                        LET AtX(dp) == dp.groupValue = g /\ dp.xValue = x
                        IN  MapGet(t.rowTotalsByX, x) = SumOfPoints(HeatmapPoints(AtX))
                  /\ \A y \in HeatmapYKeys :
                        LET AtY(dp) == dp.groupValue = g /\ dp.yValue = y
                        IN  MapGet(t.colTotalsByY, y) = SumOfPoints(HeatmapPoints(AtY))
                  /\ DOMAIN t.rowTotalsByX \subseteq HeatmapXKeys
                  /\ DOMAIN t.colTotalsByY \subseteq HeatmapYKeys
        /\ DOMAIN hmModel.totalsByGroup = HeatmapGroupSet
        /\ hmModel.overallGrandTotal = SumOfGrandTotals(HeatmapGroupSet)
        /\ \A n \in 1..Len(hmModel.dataPoints) :
              /\ hmModel.dataPoints[n].xValue # TOTAL_COL_KEY
              /\ hmModel.dataPoints[n].yValue # TOTAL_ROW_KEY

\* Two groups, one of them with two row leaves of the same Y key, a cell with
\* a highlight, both totals shown
C2_Witness ==
    /\ HeatmapDone
    /\ hmSettings.showRowTotals /\ hmSettings.showColumnTotals
    /\ Len(hmModel.groups) = 2
    /\ Len(hmMatrix.columns) = 2
    /\ \E r \in 1..Len(hmMatrix.rows) : hmMatrix.rows[r].cells[1].highlight = Num(5)
    /\ \E g \in HeatmapGroupSet :
          /\ hmModel.totalsByGroup[g].grandTotal > 0
          /\ hmModel.totalsByGroup[g].grandTotal < hmModel.overallGrandTotal

-----------------------------------------------------------------------------
(* Claims about the timeline transform *)

TimelineDone == tlPc = "done"

TimelineItems == tlModel.items

\* The start and end columns the row loop reads, and whether it is reached
StartColumnsRead == ColumnsAt(tlView, TimelineStartColumns(tlView))
EndColumnsRead == ColumnsAt(tlView, TimelineEndColumns(tlView))
RowLoopReached == StartColumnsRead # <<>> /\ EndColumnsRead # <<>>

TimelineViewRows ==
    LET columns == tlView.values \o tlView.categories
    IN  IF columns = <<>> THEN 0
        ELSE MaxOf({Len(columns[c].values) : c \in 1..Len(columns)})

StartOfRow(i) == resolveTimelineValue(StartColumnsRead, i)
EndOfRow(i) == resolveTimelineValue(EndColumnsRead, i)

\* The positions, from 1, of the items made of row i (from 0)
ItemsOfRow(i) == {k \in 1..Len(TimelineItems) : TimelineItems[k].index = i}

\* No civilization column gives row i a label that is not blank
NoUsableCivilization(i) ==
    \A c \in 1..Len(tlView.categories) :
        "civilization" \in tlView.categories[c].roles =>
            LET cell == ValueAt(tlView.categories[c], i)
            IN  cell.k = "null" \/ Trim(cell.label) = <<>>

(* C11: in a transform that reaches the row loop, a row neither of whose
   endpoints resolves to a finite value gives no item; a row exactly one of
   whose endpoints resolves gives one item with startYear = endYear = that
   value and duration 0; and an item of a row with no usable civilization
   label is labelled "Entry N", N its position from 1 among the items. *)
C11_DegradeAndEntryLabel ==
    (TimelineDone /\ RowLoopReached) =>
        \A i \in 0..(TimelineViewRows - 1) :
            LET s == StartOfRow(i)
                e == EndOfRow(i)
            IN  /\ (~IsFiniteNumber(s) /\ ~IsFiniteNumber(e)) => ItemsOfRow(i) = {}
                /\ (IsFiniteNumber(s) # IsFiniteNumber(e)) =>
                      \E k \in 1..Len(TimelineItems) :
                          /\ ItemsOfRow(i) = {k}
                          /\ TimelineItems[k].startYear
                                = YearNumber(IF IsFiniteNumber(s) THEN s ELSE e)
                          /\ TimelineItems[k].endYear = TimelineItems[k].startYear
                          /\ TimelineItems[k].duration = 0
                /\ \A k \in ItemsOfRow(i) :
                      NoUsableCivilization(i) =>
                          TimelineItems[k].civilization = EntryLabel(k)

\* Two rows and no civilization column.  The first row has no endpoint and is
\* omitted; the second has start null and end 2020: one item, "Entry 1"
C11_Witness ==
    /\ TimelineDone
    /\ tlView.categories = <<>>
    /\ Len(tlView.values) = 2
    /\ tlView.values[1].roles = {"startYear"}
    /\ tlView.values[2].roles = {"endYear"}
    /\ tlView.values[1].values = <<NullV, NullV>>
    /\ tlView.values[2].values = <<NullV, Big(0, 2020)>>
    /\ Len(TimelineItems) = 1
    /\ TimelineItems[1].civilization = <<"E", "n", "t", "r", "y", " ", "1">>
    /\ TimelineItems[1].startYear = 2020
    /\ TimelineItems[1].endYear = 2020

(* C12: a view without the expected shape gives a well-formed empty model.
   HeatmapTransformer.transform of a data view without matrix returns no
   data points, x values, y values and groups, maxValue = minValue = 0, an
   x axis of depth 0 without leaves, empty yAxisByGroup and totalsByGroup
   and overallGrandTotal = 0.  WorldHistoryTimelineTransformer.transform of
   a view with no usable start or end column returns no items and no
   groups, minValue = maxValue = 0 and minYear = maxYear = 0. *)
C12_EmptyModels ==
    /\ hmPc = "fallback" =>
          /\ hmModel.dataPoints = <<>>
          /\ hmModel.xValues = <<>>
          /\ hmModel.yValues = <<>>
          /\ hmModel.groups = <<>>
          /\ hmModel.maxValue = 0
          /\ hmModel.minValue = 0
          /\ hmModel.xAxis.depth = 0
          /\ hmModel.xAxis.leafKeys = <<>>
          /\ hmModel.xAxis.leafPaths = <<>>
          /\ hmModel.xAxis.spansByLevel = <<>>
          /\ DOMAIN hmModel.yAxisByGroup = {}
          /\ DOMAIN hmModel.totalsByGroup = {}
          /\ hmModel.overallGrandTotal = 0
    /\ (TimelineDone /\ ~RowLoopReached) =>
          /\ tlModel.items = <<>>
          /\ tlModel.dataPoints = <<>>
          /\ tlModel.groups = <<>>
          /\ tlModel.minValue = 0
          /\ tlModel.maxValue = 0
          /\ tlModel.minYear = 0
          /\ tlModel.maxYear = 0

\* The heatmap was given a view without matrix; the timeline was given an
\* endYear column of a finite year and nothing else: no start column can be
\* found and no item is returned
C12_Witness ==
    /\ hmPc = "fallback"
    /\ hmMatrix = UndefinedV
    /\ hmModel.xAxis.depth = 0
    /\ TimelineDone
    /\ Len(tlView.values) = 1
    /\ tlView.values[1].roles = {"endYear"}
    /\ tlView.values[1].values[1] = Big(0, 2020)
    /\ tlModel.items = <<>>

-----------------------------------------------------------------------------
(* Claims about repeated calls *)

(* C13: determinism and call independence.  Two calls of the same
   transformer with the same data view and settings return the same model,
   whatever calls were made before and between them. *)
C13_SameInputSameModel ==
    \A a, b \in 1..Len(callsLog) :
        (callsLog[a].chart = callsLog[b].chart /\ callsLog[a].input = callsLog[b].input)
            => callsLog[a].model = callsLog[b].model

\* The line transformer was called on a view, then on another, then on the
\* first again, and the rows of each view were summed into one point
C13_Witness ==
    /\ Len(callsLog) = 3
    /\ \A n \in 1..3 : callsLog[n].chart = "line"
    /\ callsLog[1].input = callsLog[3].input
    /\ callsLog[2].input # callsLog[1].input
    /\ Len(callsLog[3].model.dataPoints) = 1
    /\ callsLog[3].model.dataPoints[1].value = Num(3)
    /\ callsAcc # <<>>

-----------------------------------------------------------------------------
(* Claims about the index of the data points *)

\* The index fields of dataPoints are 0, 1, ..., n-1 in the order of the array
DenseIndex(dataPoints) == \A n \in 1..Len(dataPoints) : dataPoints[n].index = n - 1

BumpDone == catPc = "done" /\ catModel.chart = "bump"
DonutDone == catPc = "done" /\ catModel.chart = "donut"

(* C14: the index fields of the data points that one call of the heatmap,
   the bump or the inline-labels-line transformer returns are 0, 1, ..., n-1
   in the order of the array, whatever the groups and the skipped cells. *)
C14_DenseIndex ==
    /\ hmPc = "done" => DenseIndex(hmModel.dataPoints)
    /\ BumpDone => DenseIndex(catModel.dataPoints)
    /\ linePc = "done" => DenseIndex(lineModel.dataPoints)

\* A bump view of two groups of two rows: four points, the third the first of
\* the second group
C14_Witness ==
    /\ BumpDone
    /\ Len(catView.valueGroups) = 2
    /\ Len(catModel.dataPoints) = 4
    /\ catModel.dataPoints[3].groupValue = "G2"
    /\ catModel.dataPoints[3].index = 2

\* A heatmap of one column leaf and two row leaves in two groups: the second
\* cell of every row leaf has no column and is skipped
C14_WitnessHeatmap ==
    /\ hmPc = "done"
    /\ Len(hmMatrix.columns) = 1
    /\ Len(hmMatrix.rows) = 2
    /\ hmMatrix.rows[1].group # hmMatrix.rows[2].group
    /\ Len(hmModel.dataPoints) = 2
    /\ hmModel.dataPoints[2].index = 1

\* A line view of three rows on two keys: two points
C14_WitnessLine ==
    /\ linePc = "done"
    /\ Len(lineRows) = 3
    /\ Len(lineModel.dataPoints) = 2
    /\ lineModel.dataPoints[2].index = 1

(* C15: the index fields of the data points that one call of the timeline
   or the donut transformer returns are 0, 1, ..., n-1 in the order of the
   array, also when rows of the timeline resolve no endpoint and when the
   donut has several value groups. *)
C15_DenseIndex ==
    /\ TimelineDone => DenseIndex(tlModel.dataPoints)
    /\ DonutDone => DenseIndex(catModel.dataPoints)

-----------------------------------------------------------------------------
(* Claims about the PDF export control *)

ExportInProgress == exportTasks.exports > 0

ButtonEnabled == ~exportControl.disabled

(* C16: on a control that is not destroyed, the button is enabled only if
   the last known privilege status is Allowed, hasData is true, a snapshot
   source with an SVG element is set and no export is in progress; it is
   disabled for NotDeclared, NotSupported and DisabledByAdmin and without
   data; and when the status is Allowed, data and snapshot are there and no
   export and no capability check is in flight, the button is enabled. *)
C16_ButtonState ==
    ~exportControl.destroyed =>
        /\ ButtonEnabled =>
              /\ exportControl.lastKnownStatus = "Allowed"
              /\ exportControl.hasData
              /\ exportControl.snapshotSource = "svg"
              /\ ~ExportInProgress
        /\ exportControl.lastKnownStatus \in {"NotDeclared", "NotSupported",
                                              "DisabledByAdmin"} => ~ButtonEnabled
        /\ ~exportControl.hasData => ~ButtonEnabled
        /\ (/\ exportControl.lastKnownStatus = "Allowed"
            /\ exportControl.hasData
            /\ exportControl.snapshotSource = "svg"
            /\ ~ExportInProgress
            /\ ~exportControl.refreshPromise) => ButtonEnabled

\* An export is running after a click: everything else allows the export,
\* and the button is disabled
C16_Witness ==
    /\ ~exportControl.destroyed
    /\ exportControl.lastKnownStatus = "Allowed"
    /\ exportControl.hasData
    /\ exportControl.snapshotSource = "svg"
    /\ ExportInProgress
    /\ exportControl.busy
    /\ ~ButtonEnabled

-----------------------------------------------------------------------------
(* Claims about the role resolution *)

\* The first category column, from 0, that carries the role flag; -1 if none
FirstColumnOfRole(roleName) ==
    IF \E c \in 1..Len(catView.categories) : roleName \in catView.categories[c].roles
    THEN (CHOOSE c \in 1..Len(catView.categories) :
             /\ roleName \in catView.categories[c].roles
             /\ \A b \in 1..(c - 1) : roleName \notin catView.categories[b].roles) - 1
    ELSE -1

(* C17: role resolution is first-match-wins.  When several category columns
   carry the same role flag, the bump chart binds xAxis, yAxis and legend,
   the donut binds legend and the line chart binds its primary xAxis and
   legend to the first such column in column order. *)
C17_FirstMatchWins ==
    catPc = "done" =>
        /\ catModel.chart = "bump" =>
              /\ catModel.roles.xAxisIndex = FirstColumnOfRole("xAxis")
              /\ catModel.roles.yAxisIndex = FirstColumnOfRole("yAxis")
              /\ catModel.roles.legendIndex = FirstColumnOfRole("legend")
        /\ catModel.chart = "donut" =>
              catModel.roles.legendIndex = FirstColumnOfRole("legend")
        /\ catModel.chart = "line" =>
              /\ catModel.roles.xAxisPrimaryIndex = FirstColumnOfRole("xAxis")
              /\ catModel.roles.legendIndex = FirstColumnOfRole("legend")

-----------------------------------------------------------------------------
(* Claims about the date axis detection *)

DateAxisDone == datePc = "done"

\* The first min(length, 500) values of the column at index idx
DateSample(idx) ==
    FirstValues(dateCategories[idx + 1].values,
                Min(RunsLength(dateCategories[idx + 1].values), 500))

\* At least 85% of the sample parse as dates and the parsed values span at
\* least 28 days
MeetsBothThresholds(idx) ==
    LET sample == DateSample(idx)
        days == ParsedDays(sample)
    IN  /\ ParsedCount(sample) * 100 >= 85 * RunsLength(sample)
        /\ days # {}
        /\ MaxOf(days) - MinOf(days) >= 28

QualifyingColumns ==
    {idx \in 0..(Len(dateCategories) - 1) : MeetsBothThresholds(idx)}

ScoreOfColumn(idx) == DateCandidate(dateCategories[idx + 1])

\* C18: detectDateAxisIndex returns -1 when no column meets both thresholds
\* (85% of the first min(length, 500) values parse as dates, and they span
\* at least 28 days), and otherwise a column that meets both, of the highest
\* score, the earliest on a tie; a column that fails a threshold is never
\* returned, typed dateTime/temporal by the host or not.
C18_OnlyQualifyingColumn ==
    DateAxisDone =>
        IF QualifyingColumns = {} THEN dateAxis.index = -1
        ELSE /\ dateAxis.index \in QualifyingColumns
             /\ \A other \in QualifyingColumns :
                    /\ ~ScoreGreater(ScoreOfColumn(other), ScoreOfColumn(dateAxis.index))
                    /\ other < dateAxis.index =>
                           ScoreGreater(ScoreOfColumn(dateAxis.index), ScoreOfColumn(other))

\* The same statement for the views no column of which the host types as a date
C18_UntypedPart ==
    (\A k \in 1..Len(dateCategories) : ~dateCategories[k].typed) => C18_OnlyQualifyingColumn

-----------------------------------------------------------------------------
(* Claims about the matrix trees of the heatmap *)

TreeDone == treePc = "done"

\* The X leaves in the order of the traversal, and their keys
TraversedXLeaves == XLeaves(treeMatrix.columns)
TraversalKeys == [i \in 1..Len(TraversedXLeaves) |-> TraversedXLeaves[i].key]

\* The traversed leaf of a key (the keys of a view are distinct)
XLeafOfKey(key) ==
    TraversedXLeaves[CHOOSE i \in 1..Len(TraversedXLeaves) : TraversedXLeaves[i].key = key]

\* xAxis.leafKeys holds every traversed leaf once, and each leaf comes
\* before the leaves that follow it in the order of the per-level keys
\* (numbers by value, other keys as strings, a missing key first, reversed
\* at a level declared Descending, ties by traversal index)
LeafKeysSorted ==
    /\ Len(treeModel.xLeafKeys) = Len(TraversalKeys)
    /\ {treeModel.xLeafKeys[i] : i \in 1..Len(treeModel.xLeafKeys)}
           = {TraversalKeys[i] : i \in 1..Len(TraversalKeys)}
    /\ \A i, j \in 1..Len(treeModel.xLeafKeys) :
           i < j => CompareLeavesFrom(XLeafOfKey(treeModel.xLeafKeys[i]),
                                      XLeafOfKey(treeModel.xLeafKeys[j]),
                                      xLevelSortDirections(treeMatrix.columns.levels), 1) < 0

EveryKeyNumeric ==
    /\ Len(TraversedXLeaves) > 0
    /\ \A l \in 1..Len(TraversedXLeaves) :
           \A i \in 1..Len(TraversedXLeaves[l].sort) : TraversedXLeaves[l].sort[i].k = "num"

EveryLastKeyNumeric ==
    /\ Len(TraversedXLeaves) > 0
    /\ \A l \in 1..Len(TraversedXLeaves) :
           TraversedXLeaves[l].sort[Len(TraversedXLeaves[l].sort)].k = "num"

\* C19 as stated: the X leaves are re-sorted if and only if every sort key of
\* every leaf, at every level of its path, is numeric; re-sorted, they are in
\* the order of their per-level keys, ascending unless the level is declared
\* Descending, ties in traversal order; otherwise xAxis.leafKeys is the
\* traversal order.
C19_SortedIffAllNumeric ==
    TreeDone =>
        IF EveryKeyNumeric THEN LeafKeysSorted
        ELSE treeModel.xLeafKeys = TraversalKeys

\* C19, amended: the X leaves are re-sorted if and only if the last (leaf
\* level) sort key of every leaf is numeric, whatever the keys of the levels
\* above; re-sorted, they are in the order of their per-level keys (numbers
\* by value, other keys as strings, a missing key first), ascending unless
\* the level is declared Descending, ties in traversal order; otherwise
\* xAxis.leafKeys is the traversal order.
C19_SortedIffLastNumeric ==
    TreeDone =>
        IF EveryLastKeyNumeric THEN LeafKeysSorted
        ELSE treeModel.xLeafKeys = TraversalKeys

\* Leaves below a parent with a string key were re-sorted by their numeric keys
C19_Witness ==
    /\ TreeDone
    /\ EveryLastKeyNumeric
    /\ ~EveryKeyNumeric
    /\ treeModel.xLeafKeys # TraversalKeys
    /\ LeafKeysSorted

\* The column leaves as the host counts them, subtotals included: the path
\* of nodes of each
HostColumnLeaves == traverseMatrixAll(treeMatrix.columns.root, <<>>)
HostRowLeaves == traverseMatrixAll(treeMatrix.rows.root, <<>>)

IsRegularLeaf(path) == \A p \in 1..Len(path) : ~path[p].isSubtotal
PathKey(path) == Join([p \in 1..Len(path) |-> path[p].label], KEY_SEP)

RegularColumns == {c \in 1..Len(HostColumnLeaves) : IsRegularLeaf(HostColumnLeaves[c])}
RegularRows == {r \in 1..Len(HostRowLeaves) : IsRegularLeaf(HostRowLeaves[r])}

\* The measure-0 value of the source cell (r, c): its highlight if it has one
SourceCellValue(r, c) ==
    LET row == HostRowLeaves[r][Len(HostRowLeaves[r])]
        cell == row.values[(c - 1) * treeMatrix.valueSources + 1]
    IN  IF cell.highlight \notin {UndefinedV, NullV} THEN cell.highlight.n ELSE cell.value.n

PointsAt(r, c) ==
    {n \in 1..Len(treeModel.dataPoints) :
        /\ treeModel.dataPoints[n].yValue = PathKey(HostRowLeaves[r])
        /\ treeModel.dataPoints[n].xValue = PathKey(HostColumnLeaves[c])}

\* C20: no subtotal node is an axis leaf or contributes a data point, and
\* for every regular row leaf r and regular column leaf c the data point
\* with yValue = key(r) and xValue = key(c) carries the measure-0 value (or
\* highlight) of the source cell (r, c), with subtotal nodes between the
\* regular column leaves and with several measures.
C20_SubtotalsSkippedCellsAttributed ==
    TreeDone =>
        /\ {treeModel.xLeafKeys[i] : i \in 1..Len(treeModel.xLeafKeys)}
               = {PathKey(HostColumnLeaves[c]) : c \in RegularColumns}
        /\ {treeModel.yLeafKeys[i] : i \in 1..Len(treeModel.yLeafKeys)}
               = {PathKey(HostRowLeaves[r]) : r \in RegularRows}
        /\ Len(treeModel.dataPoints) = Cardinality(RegularRows) * Cardinality(RegularColumns)
        /\ \A r \in RegularRows : \A c \in RegularColumns :
               /\ PointsAt(r, c) # {}
               /\ \A n \in PointsAt(r, c) :
                      treeModel.dataPoints[n].value = SourceCellValue(r, c)

\* The same statement for the column trees in which no subtotal comes
\* before a regular leaf
C20_NoSubtotalBeforeLeaf ==
    (\A c \in RegularColumns : \A s \in 1..Len(HostColumnLeaves) :
         s < c => s \in RegularColumns)
        => C20_SubtotalsSkippedCellsAttributed

-----------------------------------------------------------------------------
(* Claims about the groups of the heatmap's row leaves *)

RowsDone == rowsPc = "done"

\* The paths of the row leaves, in traversal order
RowLeafPaths == traverseMatrix(rowsView.rows.root, <<>>)

\* The value of the first node of the Group role on the path, "All" when
\* there is none or it is blank
ExpectedGroup(path) ==
    LET groupNodes == {p \in 1..Len(path) : "group" \in path[p].roles}
        first == path[MinOf(groupNodes)].label
    IN  IF groupNodes = {} THEN "All"
        ELSE IF first \in {"", " "} THEN "All"
        ELSE first

\* The labels of the nodes of the path, but for the nodes of the Group role
\* alone and the empty labels of the nodes without a role
ExpectedYPath(path) ==
    LET Labelled(p) == \/ "yAxis" \in path[p].roles
                       \/ path[p].roles = {} /\ path[p].label # ""
        kept == SelectSeq([p \in 1..Len(path) |-> p], Labelled)
    IN  [k \in 1..Len(kept) |-> path[kept[k]].label]

ExpectedRowKey(r) ==
    IF ExpectedYPath(RowLeafPaths[r]) = <<>> THEN "row" \o ToString(r - 1)
    ELSE Join(ExpectedYPath(RowLeafPaths[r]), KEY_SEP)

\* The row leaves expected in a group, in traversal order
ExpectedBucket(g) ==
    LET InGroup(r) == ExpectedGroup(RowLeafPaths[r]) = g
    IN  SelectSeq([r \in 1..Len(RowLeafPaths) |-> r], InGroup)

\* The leaves of an axis that are not the total leaf
LeavesButTotal(axisOut, totalKey) ==
    LET NotTotal(i) == axisOut.leafKeys[i] # totalKey
    IN  SelectSeq([i \in 1..Len(axisOut.leafKeys) |-> i], NotTotal)

RowsGroupSet == {rowsModel.groups[n] : n \in 1..Len(rowsModel.groups)}

GroupRank(g) == CHOOSE i \in 1..Len(GroupOrder) : GroupOrder[i] = g

\* C21: every row leaf is in exactly one group, that of the first Group-role
\* node on its path, or "All" when there is none or it is blank; groups is
\* not empty (<<"All">> without row leaves) and sorted; yAxisByGroup and
\* totalsByGroup have exactly the groups as keys; a node of the Group role
\* alone adds no label to the Y path of a leaf; the groupValue of every
\* data point is a group, its yValue a leaf key of that group and its
\* xValue a leaf key of the x axis.
C21_GroupBuckets ==
    RowsDone =>
        /\ rowsModel.groups # <<>>
        /\ RowLeafPaths = <<>> => rowsModel.groups = <<"All">>
        /\ \A m, n \in 1..Len(rowsModel.groups) :
               m < n => GroupRank(rowsModel.groups[m]) < GroupRank(rowsModel.groups[n])
        /\ DOMAIN rowsModel.yAxisByGroup = RowsGroupSet
        /\ DOMAIN rowsModel.totalsByGroup = RowsGroupSet
        /\ \A r \in 1..Len(RowLeafPaths) : ExpectedGroup(RowLeafPaths[r]) \in RowsGroupSet
        /\ \A g \in RowsGroupSet :
               LET axisOut == rowsModel.yAxisByGroup[g]
                   leaves == LeavesButTotal(axisOut, TOTAL_ROW_KEY)
                   bucket == ExpectedBucket(g)
               IN  /\ Len(leaves) = Len(bucket)
                   /\ \A b \in 1..Len(bucket) :
                          /\ axisOut.leafKeys[leaves[b]] = ExpectedRowKey(bucket[b])
                          /\ axisOut.leafPaths[leaves[b]] = ExpectedYPath(RowLeafPaths[bucket[b]])
        /\ \A n \in 1..Len(rowsModel.dataPoints) :
               LET dp == rowsModel.dataPoints[n]
               IN  /\ dp.groupValue \in RowsGroupSet
                   /\ \E i \in 1..Len(rowsModel.yAxisByGroup[dp.groupValue].leafKeys) :
                          rowsModel.yAxisByGroup[dp.groupValue].leafKeys[i] = dp.yValue
                   /\ \E i \in 1..Len(rowsModel.xAxis.leafKeys) :
                          rowsModel.xAxis.leafKeys[i] = dp.xValue

\* A leaf below a node of the Group role alone and a leaf without a group:
\* two groups, with data points
C21_Witness ==
    /\ RowsDone
    /\ Len(rowsModel.groups) = 2
    /\ "All" \in RowsGroupSet
    /\ \E r \in 1..Len(RowLeafPaths) :
           /\ RowLeafPaths[r][1].roles = {"group"}
           /\ ExpectedGroup(RowLeafPaths[r]) # "All"
    /\ Len(rowsModel.dataPoints) > 0

-----------------------------------------------------------------------------
(* Claims about the total leaves of the heatmap *)

\* The chart data of the same view with showRowTotals and showColumnTotals off
RowsModelWithoutTotals ==
    transformMatrix([columns |-> rowsView.columns,
                     rows |-> GroupedRowLeaves(rowsView.rows)], NoSettings)

\* The indexes of the leaves of an axis that carry a key
LeavesWithKey(axisOut, key) ==
    {i \in 1..Len(axisOut.leafKeys) : axisOut.leafKeys[i] = key}

Without(s, at) == SubSeq(s, 1, at - 1) \o SubSeq(s, at + 1, Len(s))

\* with is before with exactly one leaf more, the total leaf, at the first
\* index (atStart) or the last; its path has length max(1, depth of before),
\* "Total" at the last level; the other leaves keep keys, paths and order
TotalLeafSpliced(before, with, totalKey, atStart) ==
    LET at == IF atStart THEN 1 ELSE Len(with.leafKeys)
    IN  /\ LeavesWithKey(with, totalKey) = {at}
        /\ Len(with.leafPaths[at]) = Max(1, before.depth)
        /\ with.leafPaths[at][Len(with.leafPaths[at])] = "Total"
        /\ Without(with.leafKeys, at) = before.leafKeys
        /\ Without(with.leafPaths, at) = before.leafPaths

\* C22: with showColumnTotals the x axis gains one leaf with totalColumnKey,
\* first when columnTotalsPosition is "left" and last otherwise; with
\* showRowTotals the y axis of every group gains one leaf with totalRowKey,
\* first when rowTotalsPosition is "top" and last otherwise; the other
\* leaves keep their keys, paths and order; the path of the total leaf has
\* length max(1, depth) and "Total" at its last level; dataPoints,
\* totalsByGroup, maxValue and minValue are those of the settings off; with
\* a setting off no leaf of its axis has the total key.
C22_TotalLeaves ==
    RowsDone =>
        LET off == RowsModelWithoutTotals
        IN  /\ IF rowsView.settings.showColumnTotals
               THEN TotalLeafSpliced(off.xAxis, rowsModel.xAxis, rowsModel.totalColumnKey,
                                     rowsView.settings.columnTotalsPosition = "left")
               ELSE /\ rowsModel.xAxis = off.xAxis
                    /\ LeavesWithKey(rowsModel.xAxis, rowsModel.totalColumnKey) = {}
            /\ DOMAIN rowsModel.yAxisByGroup = DOMAIN off.yAxisByGroup
            /\ \A g \in DOMAIN rowsModel.yAxisByGroup :
                   IF rowsView.settings.showRowTotals
                   THEN TotalLeafSpliced(off.yAxisByGroup[g], rowsModel.yAxisByGroup[g],
                                         rowsModel.totalRowKey,
                                         rowsView.settings.rowTotalsPosition = "top")
                   ELSE /\ rowsModel.yAxisByGroup[g] = off.yAxisByGroup[g]
                        /\ LeavesWithKey(rowsModel.yAxisByGroup[g], rowsModel.totalRowKey) = {}
            /\ rowsModel.dataPoints = off.dataPoints
            /\ rowsModel.totalsByGroup = off.totalsByGroup
            /\ rowsModel.maxValue = off.maxValue
            /\ rowsModel.minValue = off.minValue

\* Both totals are on, at the bottom and the left, on axes of two levels
C22_Witness ==
    /\ RowsDone
    /\ rowsView.settings.showColumnTotals /\ rowsView.settings.showRowTotals
    /\ rowsView.settings.columnTotalsPosition = "left"
    /\ rowsView.settings.rowTotalsPosition = "bottom"
    /\ rowsModel.xAxis.depth = 2
    /\ rowsModel.xAxis.leafKeys[1] = TOTAL_COL_KEY
    /\ \E g \in DOMAIN rowsModel.yAxisByGroup :
           /\ rowsModel.yAxisByGroup[g].depth = 2
           /\ rowsModel.yAxisByGroup[g].leafPaths[Len(rowsModel.yAxisByGroup[g].leafPaths)]
                  = <<"", "Total">>
    /\ Len(rowsModel.dataPoints) > 0

-----------------------------------------------------------------------------
(* Claims about the temporal level *)

LevelsDone == lvPc = "done"

ColumnHasValue(column) ==
    \E r \in 1..Len(column.values) : column.values[r] # NullV

\* The level of one column alone
LevelOfColumn(column) == inferTemporalLevel(<<column>>).level

\* none < date < year < quarter < month < day
LevelOrder == <<"none", "date", "year", "quarter", "month", "day">>
LevelPosition(level) == CHOOSE i \in 1..Len(LevelOrder) : LevelOrder[i] = level

\* C23: inferTemporalLevel returns the highest level, under the order
\* none < date < year < quarter < month < day, among the levels of the
\* columns that have a non-null value; a column whose values are all null
\* does not influence the result, whatever its name; and hasYearContext is
\* true whenever the level is "year" or "date".
C23_HighestLevel ==
    LevelsDone =>
        LET withValue == {c \in 1..Len(lvColumns) : ColumnHasValue(lvColumns[c])}
            positions == {LevelPosition(LevelOfColumn(lvColumns[c])) : c \in withValue}
        IN  /\ LevelPosition(lvOut.level) = MaxOf(positions \cup {1})
            /\ lvOut = inferTemporalLevel(SelectSeq(lvColumns, ColumnHasValue))
            /\ lvOut.level \in {"year", "date"} => lvOut.hasYearContext

\* A column named as a month whose values are all null, next to a column of
\* years: the level is "year"
C23_Witness ==
    /\ LevelsDone
    /\ \E c \in 1..Len(lvColumns) :
           /\ ~ColumnHasValue(lvColumns[c])
           /\ lvColumns[c].name = "date.month"
    /\ \E c \in 1..Len(lvColumns) : ColumnHasValue(lvColumns[c])
    /\ lvOut.level = "year"
    /\ lvOut.hasYearContext

-----------------------------------------------------------------------------
(* Reference-year propagation on the date scale *)
ReferenceDone == refPc = "done" /\ refRow.scale = "date"

StartHasYearContext == hasYearInRow(refView.start, 0)
EndHasYearContext == hasYearInRow(refView.end, 0)

IndependentYear == inferReferenceYear(refView.start \o refView.end)
IndependentStart == resolveTimelineDateValue(refView.start, 0, IndependentYear)
IndependentEnd == resolveTimelineDateValue(refView.end, 0, IndependentYear)

\* The parts an endpoint supplies, and the date the claim builds of them:
\* the month (with the day, if any) before the quarter, the quarter before
\* the day alone
SuppliedStart == ReferenceParts(NoParts, refView.start, 0)
SuppliedEnd == ReferenceParts(NoParts, refView.end, 0)
Supplies(parts) == parts.month # 0 \/ parts.quarter # 0 \/ parts.day # 0

BuiltDate(parts, year) ==
    CASE parts.month # 0 ->
           DateUTC(year, parts.month - 1, IF parts.day # 0 THEN parts.day ELSE 1)
      [] parts.month = 0 /\ parts.quarter # 0 ->
           DateUTC(year, (parts.quarter - 1) * 3, 1)
      [] OTHER -> DateUTC(year, 0, parts.day)

StartIsAnchored ==
    /\ ~StartHasYearContext
    /\ EndHasYearContext
    /\ IndependentEnd.k = "date"
    /\ Supplies(SuppliedStart)

EndIsAnchored ==
    /\ StartHasYearContext
    /\ ~EndHasYearContext
    /\ IndependentStart.k = "date"
    /\ Supplies(SuppliedEnd)

ExpectedStart ==
    IF StartIsAnchored
    THEN BuiltDate(SuppliedStart, IndependentEnd.y)
    ELSE IndependentStart

ExpectedEnd ==
    IF EndIsAnchored
    THEN BuiltDate(SuppliedEnd, IndependentStart.y)
    ELSE IndependentEnd

\* The two expected endpoints after the degrade and the final ordering
ExpectedEndpoints ==
    LET s == IF ExpectedStart.k = "null" THEN ExpectedEnd ELSE ExpectedStart
        e == IF ExpectedEnd.k = "null" THEN ExpectedStart ELSE ExpectedEnd
    IN  IF s.k = "null" THEN {}
        ELSE {s, e}

(* C24: on the date scale, an endpoint without year context next to one with
   year context that resolves to a date becomes the date built from the UTC
   year of that date and the month, quarter or day it supplies (month before
   quarter, quarter before day alone); with year context on both or on
   neither endpoint the independently resolved values stay; and the row ends
   with startYear <= endYear. *)
C24_ReferenceYear ==
    ReferenceDone =>
        /\ refRow.kept <=> ExpectedEndpoints # {}
        /\ refRow.kept =>
             /\ {refRow.startYear, refRow.endYear} = ExpectedEndpoints
             /\ ~DateLess(refRow.endYear, refRow.startYear)

\* A start of month and quarter without a year takes the year of the end, and
\* the month wins
C24_Witness ==
    /\ ReferenceDone
    /\ StartIsAnchored
    /\ SuppliedStart.month # 0
    /\ SuppliedStart.quarter # 0
    /\ IndependentStart # ExpectedStart
    /\ refRow.startYear = ExpectedStart

-----------------------------------------------------------------------------
(* The highlight state of a categorical view *)
IncomingDone == hsPc = "done"

HighlightBearing == {c \in 1..Len(hsColumns) : hsColumns[c].hasHighlights}
PreferredBearing == {c \in HighlightBearing : hsColumns[c].preferred}
ColumnRows(c) == 0..(Len(hsColumns[c].highlights) - 1)
IncomingHighlightAt(c, r) == hsColumns[c].highlights[r + 1]
IncomingBaseAt(c, r) == hsColumns[c].values[r + 1]

\* The claim read with exact comparisons: differs is "is not the same value",
\* non-zero is "is not 0"
DiffersExactly(c, r) == IncomingHighlightAt(c, r) # IncomingBaseAt(c, r)
SuppressedZeroExactly(c, r) ==
    /\ IncomingHighlightAt(c, r) = Num(0)
    /\ IncomingBaseAt(c, r).k # "null"
    /\ IncomingBaseAt(c, r) # Num(0)

\* The claim read with the comparison of the code: two numbers no more than
\* 1e-9 apart are the same value
CloseNumbers(a, b) ==
    a.k = "num" /\ b.k = "num" /\ a.n - b.n \in -2..2
DiffersBeyondTolerance(c, r) ==
    IncomingHighlightAt(c, r) # IncomingBaseAt(c, r) /\ ~CloseNumbers(IncomingHighlightAt(c, r), IncomingBaseAt(c, r))
SuppressedZeroBeyondTolerance(c, r) ==
    /\ IncomingHighlightAt(c, r) = Num(0)
    /\ IncomingBaseAt(c, r).k # "null"
    /\ ~CloseNumbers(IncomingBaseAt(c, r), Num(0))

IncomingExactly(c) ==
    /\ \E r \in ColumnRows(c) : IncomingHighlightAt(c, r).k # "null"
    /\ \/ \E r \in ColumnRows(c) : IncomingHighlightAt(c, r).k = "null"
       \/ \E r \in ColumnRows(c) : IncomingHighlightAt(c, r).k # "null" /\ DiffersExactly(c, r)

IncomingBeyondTolerance(c) ==
    /\ \E r \in ColumnRows(c) : IncomingHighlightAt(c, r).k # "null"
    /\ \/ \E r \in ColumnRows(c) : IncomingHighlightAt(c, r).k = "null"
       \/ \E r \in ColumnRows(c) :
             IncomingHighlightAt(c, r).k # "null" /\ DiffersBeyondTolerance(c, r)

ConsideredExactly ==
    IF PreferredBearing # {} /\ \E c \in PreferredBearing : IncomingExactly(c)
    THEN PreferredBearing ELSE HighlightBearing

ConsideredBeyondTolerance ==
    IF PreferredBearing # {} /\ \E c \in PreferredBearing : IncomingBeyondTolerance(c)
    THEN PreferredBearing ELSE HighlightBearing

(* C25 as stated: a column has incoming highlights iff it has a non-null
   highlight and a null highlight or one that differs from its base; a row
   is highlighted iff a considered column with incoming highlights has there
   a non-null highlight that is not a zero over a non-null, non-zero base;
   without a highlights array the result is false and empty; the preferred
   columns are considered alone unless none of them has incoming highlights. *)
C25_ExactComparison ==
    IncomingDone =>
        /\ hsOut.hasIncomingHighlights
             <=> \E c \in ConsideredExactly : IncomingExactly(c)
        /\ hsOut.highlightedRows =
             {r \in {0, 1} : \E c \in ConsideredExactly :
                  /\ IncomingExactly(c)
                  /\ IncomingHighlightAt(c, r).k # "null"
                  /\ ~SuppressedZeroExactly(c, r)}
        /\ HighlightBearing = {} =>
             ~hsOut.hasIncomingHighlights /\ hsOut.highlightedRows = {}

(* C25 amended: the same, where "differs" and "non-zero" hold of two numbers
   only if they are more than 1e-9 apart. *)
C25_WithinTolerance ==
    IncomingDone =>
        /\ hsOut.hasIncomingHighlights
             <=> \E c \in ConsideredBeyondTolerance : IncomingBeyondTolerance(c)
        /\ hsOut.highlightedRows =
             {r \in {0, 1} : \E c \in ConsideredBeyondTolerance :
                  /\ IncomingBeyondTolerance(c)
                  /\ IncomingHighlightAt(c, r).k # "null"
                  /\ ~SuppressedZeroBeyondTolerance(c, r)}
        /\ HighlightBearing = {} =>
             ~hsOut.hasIncomingHighlights /\ hsOut.highlightedRows = {}

\* The preferred column has no incoming highlights and the other column has:
\* a zero highlight over a missing base is highlighted, one over a base of
\* 2e-9 is not
C25_Witness ==
    /\ IncomingDone
    /\ PreferredBearing = {1}
    /\ ~IncomingBeyondTolerance(1)
    /\ IncomingBeyondTolerance(2)
    /\ IncomingHighlightAt(2, 0) = Num(0) /\ IncomingBaseAt(2, 0) = NullV
    /\ IncomingHighlightAt(2, 1) = Num(0) /\ IncomingBaseAt(2, 1) = Num(4)
    /\ hsOut.hasIncomingHighlights
    /\ hsOut.highlightedRows = {0}

-----------------------------------------------------------------------------
(* The precondition of the span builder in the X axis of the heatmap *)
TreeSpans(L) == treeModel.xAxis.spansByLevel[L]

\* The leaves (counted from 0) whose path reaches level L (counted from 0)
LeavesAtLevel(L) ==
    {i \in 0..(Len(treeModel.xLeafPaths) - 1) : Len(treeModel.xLeafPaths[i + 1]) > L}

PrefixesContiguous(L) ==
    \A i, j, k \in LeavesAtLevel(L) :
        (i < j /\ j < k /\ SamePrefix(treeModel.xLeafPaths, L, i, k))
            => SamePrefix(treeModel.xLeafPaths, L, i, j)

SpanKeysDistinct(L) ==
    \A a, b \in 1..Len(TreeSpans(L + 1)) :
        TreeSpans(L + 1)[a].key = TreeSpans(L + 1)[b].key => a = b

(* C26: in the X axis that transform returns before the totals are spliced
   in, the leaves that share a label prefix of a level are contiguous at
   every level, and no two spans of one level have the same key. *)
C26_PrefixesContiguous ==
    TreeDone =>
        \A L \in 0..(treeModel.xAxis.depth - 1) :
            /\ PrefixesContiguous(L)
            /\ SpanKeysDistinct(L)

\* Two parents labelled "Jan 2024" and "Jan-2024" share the sort key 202401:
\* the re-sort orders their leaves by the leaf values alone
C26_SplitParent ==
    /\ TreeDone
    /\ treeModel.xLeafPaths = <<<<"Jan 2024", "1">>, <<"Jan-2024", "2">>, <<"Jan 2024", "3">>>>
    /\ Len(TreeSpans(1)) = 3
    /\ TreeSpans(1)[1].key = TreeSpans(1)[3].key

-----------------------------------------------------------------------------
(* The invariants of the timeline output *)
ItemStarts == {TimelineItems[k].startYear : k \in 1..Len(TimelineItems)}
ItemEnds == {TimelineItems[k].endYear : k \in 1..Len(TimelineItems)}
ItemDurations == {TimelineItems[k].duration : k \in 1..Len(TimelineItems)}

\* The two endpoints of the row of an item as the columns give them, the
\* missing one degraded to the other
RowEndpoints(i) ==
    {YearNumber(v) : v \in {w \in {StartOfRow(i), EndOfRow(i)} : IsFiniteNumber(w)}}

ItemIsOrdered(item) ==
    /\ item.startYear \in Int
    /\ item.endYear \in Int
    /\ item.startYear <= item.endYear
    /\ {item.startYear, item.endYear} = RowEndpoints(item.index)
    /\ item.duration = item.endYear - item.startYear
    /\ item.value = item.duration
    /\ item.duration >= 0
    /\ item.xValue = ToString(item.startYear)

(* C27: every item has finite, ordered endpoints (reversed endpoints are
   swapped), duration = value = endYear - startYear >= 0 and the string of
   startYear as xValue; with an item, minYear, maxYear, minValue and maxValue
   are the extremes of the items, and all four are 0 without one; items and
   dataPoints are the same sequence and yValues lists the labels in order. *)
C27_OutputInvariants ==
    TimelineDone =>
        /\ \A k \in 1..Len(TimelineItems) : ItemIsOrdered(TimelineItems[k])
        /\ TimelineItems # <<>> =>
             /\ tlModel.minYear \in ItemStarts
             /\ \A y \in ItemStarts : tlModel.minYear <= y
             /\ tlModel.maxYear \in ItemEnds
             /\ \A y \in ItemEnds : y <= tlModel.maxYear
             /\ tlModel.minValue \in ItemDurations
             /\ \A d \in ItemDurations : tlModel.minValue <= d
             /\ tlModel.maxValue \in ItemDurations
             /\ \A d \in ItemDurations : d <= tlModel.maxValue
             /\ tlModel.minYear <= tlModel.maxYear
             /\ tlModel.minValue <= tlModel.maxValue
        /\ TimelineItems = <<>> =>
             /\ tlModel.minYear = 0 /\ tlModel.maxYear = 0
             /\ tlModel.minValue = 0 /\ tlModel.maxValue = 0
        /\ tlModel.dataPoints = TimelineItems
        /\ tlModel.yValues = [k \in 1..Len(TimelineItems) |-> TimelineItems[k].civilization]
        /\ \A k \in 1..Len(TimelineItems) :
             TimelineItems[k].yValue = TimelineItems[k].civilization

\* Two items, the first of a row whose start is after its end, the second of
\* a row with one endpoint
C27_Witness ==
    /\ TimelineDone
    /\ Len(TimelineItems) = 2
    /\ StartOfRow(0) = Big(0, 2020)
    /\ EndOfRow(0) = Big(0, 1990)
    /\ TimelineItems[1].startYear = 1990
    /\ TimelineItems[1].duration = 30
    /\ TimelineItems[2].duration = 0
    /\ tlModel.minValue = 0
    /\ tlModel.maxValue = 30

-----------------------------------------------------------------------------
(* A single export in flight *)
ExportStarts == exportTasks'.exports > exportTasks.exports

(* C28: whatever the interleaving of handler invocations with completions of
   capability checks and of exports, an export starts only while no export
   is in flight, the control is not destroyed, the status is Allowed, there
   is data and the snapshot has an SVG element. *)
C28_SingleExportInFlight ==
    [][ExportStarts =>
          /\ exportTasks.exports = 0
          /\ ~exportControl.destroyed
          /\ isExportAllowed(exportControl)
          /\ HasSnapshot(exportControl)]_vars

\* Two handlers awaited one capability check and both started an export
C28_TwoExportsInFlight == exportTasks.exports >= 2

\* A handler awaited the capability check, the control was destroyed, and the
\* export started all the same
C28_ExportOfDestroyedControl ==
    exportControl.destroyed /\ exportControl.busy /\ exportTasks.exports = 1

-----------------------------------------------------------------------------
(* The completion of an export *)
\* Every export that was started leaves busy = false
C29_EventuallyNotBusy == ExportInProgress ~> ~exportControl.busy

\* The message of a failed export is the title of the button once the
\* handler has finished
C29_FailureIsTitle ==
    [][\A failure \in ExportFailures :
          ExportSettlesAs(failure) => exportControl'.title = failure]_vars

\* After the completion the button of a control that is not destroyed is
\* enabled iff the status is Allowed and data and snapshot are present
C29_EnabledAgain ==
    [][(ExportSettles /\ ~exportControl.destroyed) =>
          (~exportControl'.disabled
              <=> isExportAllowed(exportControl') /\ HasSnapshot(exportControl'))]_vars

\* The completion on a destroyed control leaves the button as it is
C29_DestroyedUntouched ==
    [][(ExportSettles /\ exportControl.destroyed) =>
          exportControl'.disabled = exportControl.disabled]_vars

(* C29: every export that was started eventually leaves busy = false,
   whatever its outcome; a failure is reported as the title of the button;
   after the completion the button is enabled again iff the status is
   Allowed and data and snapshot are present; and on a control destroyed in
   the meantime the completion leaves the disabled state of the button. *)
C29_ExportCompletion ==
    /\ C29_EventuallyNotBusy
    /\ C29_FailureIsTitle
    /\ C29_EnabledAgain
    /\ C29_DestroyedUntouched

\* An export failed on a control that is not destroyed, and the button shows
\* the invitation to download
C29_FailureOverwritten ==
    [][(ExportSettlesAs("Power BI did not complete the PDF download request.")
          /\ ~exportControl.destroyed /\ isExportAllowed(exportControl)
          /\ HasSnapshot(exportControl))
        => exportControl'.title = "Download the current chart as a PDF file."]_vars

-----------------------------------------------------------------------------
(* Claims about the sort mode of the timeline visual *)

\* The option of the rendered list with the given mode is there and enabled
RenderedEnabled(mode) ==
    \E i \in 1..Len(smOut.sortOptions) :
        smOut.sortOptions[i].mode = mode /\ ~smOut.sortOptions[i].disabled

\* The same of the list the step renders
RenderedEnabledNext(mode) ==
    \E i \in 1..Len(smOut'.sortOptions) :
        smOut'.sortOptions[i].mode = mode /\ ~smOut'.sortOptions[i].disabled

NoRenderedEnabled ==
    \A i \in 1..Len(smOut.sortOptions) : smOut.sortOptions[i].disabled

\* The sort mode given to the renderer is an enabled option of the list
EffectiveIsEnabled == smOut.rendered => RenderedEnabled(smOut.sortBy)

\* ... or "time" when the list has no enabled option
EffectiveIsEnabledOrTime ==
    smOut.rendered =>
        \/ RenderedEnabled(smOut.sortBy)
        \/ NoRenderedEnabled /\ smOut.sortBy = "time"

\* An update of the host that renders data keeps and uses a runtime choice
\* that is an enabled option of its list, whatever the sort mode of the
\* settings, and resets one that is not; an update that renders no data
\* leaves the choice alone
RuntimeChoiceAcrossUpdate ==
    (smOut'.by = "update" /\ smVisual.runtimeSortBy # "null") =>
        IF ~smOut'.rendered
        THEN smVisual'.runtimeSortBy = smVisual.runtimeSortBy
        ELSE IF RenderedEnabledNext(smVisual.runtimeSortBy)
        THEN /\ smVisual'.runtimeSortBy = smVisual.runtimeSortBy
             /\ smOut'.sortBy = smVisual.runtimeSortBy
        ELSE smVisual'.runtimeSortBy = "null"

\* A choice made through the control is the sort mode of the render it triggers
RuntimeChoiceByClick ==
    smOut'.by = "click" =>
        /\ smOut'.rendered
        /\ smVisual'.runtimeSortBy # "null"
        /\ smOut'.sortBy = smVisual'.runtimeSortBy
        /\ RenderedEnabled(smVisual'.runtimeSortBy)

\* A choice is made through the control only
RuntimeChoiceOnlyByClick ==
    (smOut'.by = "update" /\ smVisual.runtimeSortBy = "null") =>
        smVisual'.runtimeSortBy = "null"

\* The region option is disabled without region role or with fewer than two regions
RegionOptionDisabled ==
    (/\ smOut.rendered
     /\ ~smVisual.lastUpdateOptions.hasRegionRoleData
            \/ smVisual.lastUpdateOptions.regions < 2) =>
        \A i \in 1..Len(smOut.sortOptions) :
            smOut.sortOptions[i].mode = "region" => smOut.sortOptions[i].disabled

RuntimeChoiceRules ==
    [][RuntimeChoiceAcrossUpdate /\ RuntimeChoiceByClick /\ RuntimeChoiceOnlyByClick]_vars

\* C30 as stated: in every update that renders data the effective sort mode
\* is one of the enabled options of the resolved list; a runtime choice is
\* used by every later update while it stays an enabled option, before the
\* sort mode of the settings, and is reset by the first update in which it is
\* not enabled; the region option is disabled when the data has no region
\* role or fewer than two regions.
C30_SortModeSelection ==
    /\ []EffectiveIsEnabled
    /\ RuntimeChoiceRules
    /\ []RegionOptionDisabled

\* C30, amended: the same, except that the effective sort mode is "time"
\* when the resolved list has no enabled option.
C30_SortModeSelectionOrTime ==
    /\ []EffectiveIsEnabledOrTime
    /\ RuntimeChoiceRules
    /\ []RegionOptionDisabled

\* An update of the host used the runtime choice although the sort mode of
\* the settings is another enabled option
C30_Witness ==
    /\ smOut.rendered
    /\ smOut.by = "update"
    /\ smVisual.runtimeSortBy # "null"
    /\ smOut.sortBy = smVisual.runtimeSortBy
    /\ smVisual.lastUpdateOptions.sortBy # smVisual.runtimeSortBy
    /\ RenderedEnabled(smVisual.lastUpdateOptions.sortBy)

-----------------------------------------------------------------------------
(* Views of an unexpected shape: a heatmap data view with no matrix or with a
   matrix without rows, and a timeline view of one row, transformed one after
   the other in either order *)

ViewsInit ==
    /\ hmMatrix \in [columns : HeatmapColumns, rows : {<<>>}] \cup {UndefinedV}
    /\ hmSettings = NoSettings
    /\ hmModel = NoHeatmapModel
    /\ hmPc = "input"
    /\ tlView \in TimelineViewsOf(1)
    /\ tlModel = NoTimelineModel
    /\ tlPc = "input"

ViewsNext ==
    \/ HeatmapTransform
    \/ TimelineTransform

-----------------------------------------------------------------------------
(* Specifications: one per component, the other components idle *)

InitAxis == AxisInit /\ EpochIdle /\ SortIdle /\ LineIdle /\ HighlightIdle /\
    HeatmapIdle /\ TimelineIdle /\ CallsIdle /\ CategoricalIdle /\ ExportIdle /\
    DateAxisIdle /\ TreeIdle /\ RowsIdle /\ LevelsIdle /\ ReferenceIdle /\
    IncomingIdle /\ SortModeIdle
SpecAxis == InitAxis /\ [][AxisNext]_vars

InitEpoch == EpochInit /\ AxisIdle /\ SortIdle /\ LineIdle /\ HighlightIdle /\
    HeatmapIdle /\ TimelineIdle /\ CallsIdle /\ CategoricalIdle /\ ExportIdle /\
    DateAxisIdle /\ TreeIdle /\ RowsIdle /\ LevelsIdle /\ ReferenceIdle /\
    IncomingIdle /\ SortModeIdle
SpecEpoch == InitEpoch /\ [][EpochNext]_vars

InitSort == SortInit /\ AxisIdle /\ EpochIdle /\ LineIdle /\ HighlightIdle /\
    HeatmapIdle /\ TimelineIdle /\ CallsIdle /\ CategoricalIdle /\ ExportIdle /\
    DateAxisIdle /\ TreeIdle /\ RowsIdle /\ LevelsIdle /\ ReferenceIdle /\
    IncomingIdle /\ SortModeIdle
SpecSort == InitSort /\ [][SortNext]_vars

InitLine == LineInit /\ AxisIdle /\ EpochIdle /\ SortIdle /\ HighlightIdle /\
    HeatmapIdle /\ TimelineIdle /\ CallsIdle /\ CategoricalIdle /\ ExportIdle /\
    DateAxisIdle /\ TreeIdle /\ RowsIdle /\ LevelsIdle /\ ReferenceIdle /\
    IncomingIdle /\ SortModeIdle
SpecLine == InitLine /\ [][LineNext]_vars

InitHighlight == HighlightInit /\ AxisIdle /\ EpochIdle /\ SortIdle /\ LineIdle /\
    HeatmapIdle /\ TimelineIdle /\ CallsIdle /\ CategoricalIdle /\ ExportIdle /\
    DateAxisIdle /\ TreeIdle /\ RowsIdle /\ LevelsIdle /\ ReferenceIdle /\
    IncomingIdle /\ SortModeIdle
SpecHighlight == InitHighlight /\ [][HighlightNext]_vars

InitHeatmap == HeatmapInit /\ AxisIdle /\ EpochIdle /\ SortIdle /\ LineIdle /\
    HighlightIdle /\ TimelineIdle /\ CallsIdle /\ CategoricalIdle /\ ExportIdle /\
    DateAxisIdle /\ TreeIdle /\ RowsIdle /\ LevelsIdle /\ ReferenceIdle /\
    IncomingIdle /\ SortModeIdle
SpecHeatmap == InitHeatmap /\ [][HeatmapNext]_vars

InitTimeline == TimelineInit /\ AxisIdle /\ EpochIdle /\ SortIdle /\ LineIdle /\
    HighlightIdle /\ HeatmapIdle /\ CallsIdle /\ CategoricalIdle /\ ExportIdle /\
    DateAxisIdle /\ TreeIdle /\ RowsIdle /\ LevelsIdle /\ ReferenceIdle /\
    IncomingIdle /\ SortModeIdle
SpecTimeline == InitTimeline /\ [][TimelineNext]_vars

InitCalls == CallsInit /\ AxisIdle /\ EpochIdle /\ SortIdle /\ LineIdle /\
    HighlightIdle /\ HeatmapIdle /\ TimelineIdle /\ CategoricalIdle /\ ExportIdle /\
    DateAxisIdle /\ TreeIdle /\ RowsIdle /\ LevelsIdle /\ ReferenceIdle /\
    IncomingIdle /\ SortModeIdle
SpecCalls == InitCalls /\ [][CallsNext]_vars

InitCategorical == CategoricalInit /\ AxisIdle /\ EpochIdle /\ SortIdle /\ LineIdle /\
    HighlightIdle /\ HeatmapIdle /\ TimelineIdle /\ CallsIdle /\ ExportIdle /\
    DateAxisIdle /\ TreeIdle /\ RowsIdle /\ LevelsIdle /\ ReferenceIdle /\
    IncomingIdle /\ SortModeIdle
SpecCategorical == InitCategorical /\ [][CategoricalNext]_vars

InitExport == ExportInit /\ AxisIdle /\ EpochIdle /\ SortIdle /\ LineIdle /\
    HighlightIdle /\ HeatmapIdle /\ TimelineIdle /\ CallsIdle /\ CategoricalIdle /\
    DateAxisIdle /\ TreeIdle /\ RowsIdle /\ LevelsIdle /\ ReferenceIdle /\
    IncomingIdle /\ SortModeIdle
SpecExport == InitExport /\ [][ExportNext]_vars

InitDateAxis == DateAxisInit /\ AxisIdle /\ EpochIdle /\ SortIdle /\ LineIdle /\
    HighlightIdle /\ HeatmapIdle /\ TimelineIdle /\ CallsIdle /\ CategoricalIdle /\
    ExportIdle /\ TreeIdle /\ RowsIdle /\ LevelsIdle /\ ReferenceIdle /\
    IncomingIdle /\ SortModeIdle
SpecDateAxis == InitDateAxis /\ [][DateAxisNext]_vars

InitTree == TreeInit /\ AxisIdle /\ EpochIdle /\ SortIdle /\ LineIdle /\
    HighlightIdle /\ HeatmapIdle /\ TimelineIdle /\ CallsIdle /\ CategoricalIdle /\
    ExportIdle /\ DateAxisIdle /\ RowsIdle /\ LevelsIdle /\ ReferenceIdle /\
    IncomingIdle /\ SortModeIdle
SpecTree == InitTree /\ [][TreeNext]_vars

InitRows == RowsInit /\ AxisIdle /\ EpochIdle /\ SortIdle /\ LineIdle /\
    HighlightIdle /\ HeatmapIdle /\ TimelineIdle /\ CallsIdle /\ CategoricalIdle /\
    ExportIdle /\ DateAxisIdle /\ TreeIdle /\ LevelsIdle /\ ReferenceIdle /\
    IncomingIdle /\ SortModeIdle
SpecRows == InitRows /\ [][RowsNext]_vars

InitLevels == LevelsInit /\ AxisIdle /\ EpochIdle /\ SortIdle /\ LineIdle /\
    HighlightIdle /\ HeatmapIdle /\ TimelineIdle /\ CallsIdle /\ CategoricalIdle /\
    ExportIdle /\ DateAxisIdle /\ TreeIdle /\ RowsIdle /\ ReferenceIdle /\
    IncomingIdle /\ SortModeIdle
SpecLevels == InitLevels /\ [][LevelsNext]_vars

InitReference == ReferenceInit /\ AxisIdle /\ EpochIdle /\ SortIdle /\ LineIdle /\
    HighlightIdle /\ HeatmapIdle /\ TimelineIdle /\ CallsIdle /\ CategoricalIdle /\
    ExportIdle /\ DateAxisIdle /\ TreeIdle /\ RowsIdle /\ LevelsIdle /\ IncomingIdle /\
    SortModeIdle
SpecReference == InitReference /\ [][ReferenceNext]_vars

InitIncoming == IncomingInit /\ AxisIdle /\ EpochIdle /\ SortIdle /\ LineIdle /\
    HighlightIdle /\ HeatmapIdle /\ TimelineIdle /\ CallsIdle /\ CategoricalIdle /\
    ExportIdle /\ DateAxisIdle /\ TreeIdle /\ RowsIdle /\ LevelsIdle /\
    ReferenceIdle /\ SortModeIdle
SpecIncoming == InitIncoming /\ [][IncomingNext]_vars

InitSortMode == SortModeInit /\ AxisIdle /\ EpochIdle /\ SortIdle /\ LineIdle /\
    HighlightIdle /\ HeatmapIdle /\ TimelineIdle /\ CallsIdle /\ CategoricalIdle /\
    ExportIdle /\ DateAxisIdle /\ TreeIdle /\ RowsIdle /\ LevelsIdle /\
    ReferenceIdle /\ IncomingIdle
SpecSortMode == InitSortMode /\ [][SortModeNext]_vars

InitDataPoints == InitHeatmap \/ InitCategorical \/ InitLine
NextDataPoints == HeatmapNext \/ CategoricalNext \/ LineNext
SpecDataPoints == InitDataPoints /\ [][NextDataPoints]_vars

InitIndexed == InitTimeline \/ InitCategorical
NextIndexed == TimelineNext \/ CategoricalNext
SpecIndexed == InitIndexed /\ [][NextIndexed]_vars

InitViews == ViewsInit /\ AxisIdle /\ EpochIdle /\ SortIdle /\ LineIdle /\
    HighlightIdle /\ CallsIdle /\ CategoricalIdle /\ ExportIdle /\ DateAxisIdle /\
    TreeIdle /\ RowsIdle /\ LevelsIdle /\ ReferenceIdle /\ IncomingIdle /\ SortModeIdle
SpecViews == InitViews /\ [][ViewsNext]_vars

InitHandlers == InitExport
SpecHandlers == InitHandlers /\ [][HandlersNext]_vars

\* Every export promise that was started settles
InitExportFair == InitExport
SpecExportFair == InitExportFair /\ [][ExportNext]_vars /\ WF_vars(ExportSettles)
====
